---- MODULE Spec2Model ----
(***************************************************************************)
(* PortalPlanner: portal reachability resolution, portal geometry and the  *)
(* portal mutators, modelled from src/src/{world,portal,region,util,pos,   *)
(* entity}.rs and the portal editor of src/src/main.rs.                    *)
(*                                                                         *)
(* A BlockPos is a record [x, y, z] of integers, indexed by an Axis        *)
(* ("x", "y", "z"); a BlockRegion is [min, max]; a Portal is               *)
(* [id, region, axis] (name and colour are cosmetic and left out).         *)
(***************************************************************************)
EXTENDS Integers, Sequences, FiniteSets, TLC

VARIABLES
    destination_dimension,  \* argument of portal_destinations
    destination_region,     \* argument of portal_destinations
    candidates,             \* self[destination_dimension]: sequence of Portal
    pc,                     \* position of the caller
    actual,                 \* result of portal_destinations
    expected,               \* result of portal_destinations_naive
    dimension,              \* the dimension `portal` is in
    portal,                 \* the portal edited, or whose region is computed
    prefs_entity,           \* the entity that travels (prefs.entity)
    collision,              \* result of entity_collision_region
    edits,                  \* number of mutator calls made on `portal`
    world,                  \* the WorldPortals queried: [overworld, nether]
    repeated,               \* result of a second, identical portal_destinations call
    call_stack,             \* pending work of mark_reachable_portals, next first
    marks,                  \* confirmed_reachable, may_generate_new_portal, steps
    COUNTER,                \* id.rs: the static AtomicU64
    threads,                \* per thread: position in PortalId::new, ids returned to it
    cached_links,           \* App::cached_links: id -> (outgoing, incoming)
    input,                  \* arguments of a function called on its own
    output                  \* what that function returned

vars == <<destination_dimension, destination_region, candidates, pc, actual, expected,
          dimension, portal, prefs_entity, collision, edits, world, repeated,
          call_stack, marks, COUNTER, threads, cached_links, input, output>>

----------------------------------------------------------------------------
(* pos.rs : Axis, BlockPos *)

AxisX == "x"
AxisY == "y"
AxisZ == "z"

\* Axis::ALL, in declaration order
AxisALL == <<AxisX, AxisY, AxisZ>>

\* `axis as usize`
AxisIndex(axis) == CASE axis = AxisX -> 0 [] axis = AxisY -> 1 [] axis = AxisZ -> 2

BlockPos(x, y, z) == [x |-> x, y |-> y, z |-> z]

BlockRegion(min, max) == [min |-> min, max |-> max]

----------------------------------------------------------------------------
(* world.rs : Dimension *)

Overworld == "Overworld"
Nether == "Nether"
Dimensions == {Overworld, Nether}

scale(dim) == IF dim = Overworld THEN 1 ELSE 8

y_min(dim) == IF dim = Overworld THEN -64 ELSE 0

y_max(dim) == IF dim = Overworld THEN 319 ELSE 255

other(dim) == IF dim = Overworld THEN Nether ELSE Overworld

portal_search_range(dim) == IF dim = Overworld THEN 128 ELSE 16

----------------------------------------------------------------------------
(* i64 arithmetic.  The machine integer is modelled IntBits wide, with the *)
(* saturating operations the code calls by name and two's-complement wrap  *)
(* for the plain operators (as in a release build; a debug build panics    *)
(* instead, which the Panics actions below model).                         *)

\* Width of the modelled machine integer.
IntBits == 11

I64_MAX == 2 ^ (IntBits - 1) - 1
I64_MIN == -(2 ^ (IntBits - 1))

fits_i64(n) == I64_MIN <= n /\ n <= I64_MAX

saturating(n) == IF n > I64_MAX THEN I64_MAX ELSE IF n < I64_MIN THEN I64_MIN ELSE n

saturating_add(a, b) == saturating(a + b)

saturating_sub(a, b) == saturating(a - b)

wrapping(n) == ((n - I64_MIN) % (2 ^ IntBits)) + I64_MIN

\* Ord::clamp, called with lo <= hi
clamp(v, lo, hi) == IF v < lo THEN lo ELSE IF v > hi THEN hi ELSE v

----------------------------------------------------------------------------
(* util.rs : distances between inclusive integer ranges.  A range a..=b    *)
(* is passed as its two ends.                                              *)

Max2(a, b) == IF a >= b THEN a ELSE b
Min2(a, b) == IF a <= b THEN a ELSE b

\* The differences are plain i64 subtractions: they wrap in a release build.
min_range_distance_to(s1, e1, s2, e2) ==
    IF e1 < s2 THEN wrapping(s2 - e1)
    ELSE IF e2 < s1 THEN wrapping(s1 - e2)
    ELSE 0

min_range_distance_to_pos(s, e, pos) ==
    IF e < pos THEN wrapping(pos - e)
    ELSE IF pos < s THEN wrapping(s - pos)
    ELSE 0

\* A subtraction of min_range_distance_to leaves i64: a debug build panics.
min_range_distance_to_overflows(s1, e1, s2, e2) ==
    \/ e1 < s2 /\ ~fits_i64(s2 - e1)
    \/ ~(e1 < s2) /\ e2 < s1 /\ ~fits_i64(s1 - e2)

max_range_distance_to(s1, e1, s2, e2) ==
    Max2(min_range_distance_to_pos(s2, e2, s1), min_range_distance_to_pos(s2, e2, e1))

----------------------------------------------------------------------------
(* region.rs : BlockRegion *)

min_euclidean_distance_sq_to(self, o) ==
    LET dx == min_range_distance_to(self.min.x, self.max.x, o.min.x, o.max.x)
        dy == min_range_distance_to(self.min.y, self.max.y, o.min.y, o.max.y)
        dz == min_range_distance_to(self.min.z, self.max.z, o.min.z, o.max.z)
    IN dx * dx + dy * dy + dz * dz

max_euclidean_distance_sq_to(self, o) ==
    LET dx == max_range_distance_to(self.min.x, self.max.x, o.min.x, o.max.x)
        dy == max_range_distance_to(self.min.y, self.max.y, o.min.y, o.max.y)
        dz == max_range_distance_to(self.min.z, self.max.z, o.min.z, o.max.z)
    IN dx * dx + dy * dy + dz * dz

min_euclidean_distance_sq_to_point(self, pos) ==
    LET dx == min_range_distance_to_pos(self.min.x, self.max.x, pos.x)
        dy == min_range_distance_to_pos(self.min.y, self.max.y, pos.y)
        dz == min_range_distance_to_pos(self.min.z, self.max.z, pos.z)
    IN dx * dx + dy * dy + dz * dz

\* BlockRegion::iter, as the set of blocks it yields
RegionBlocks(r) ==
    { BlockPos(x, y, z) : x \in r.min.x .. r.max.x,
                          y \in r.min.y .. r.max.y,
                          z \in r.min.z .. r.max.z }

is_valid_on_axis(r, axis) == r.min[axis] <= r.max[axis]

\* The 8 corners; bit 0 of the (0-based) index selects x, bit 1 y, bit 2 z.
corners(r) ==
    LET x1 == r.min.x  y1 == r.min.y  z1 == r.min.z
        x2 == r.max.x  y2 == r.max.y  z2 == r.max.z
    IN << BlockPos(x1, y1, z1), BlockPos(x2, y1, z1),
          BlockPos(x1, y2, z1), BlockPos(x2, y2, z1),
          BlockPos(x1, y1, z2), BlockPos(x2, y1, z2),
          BlockPos(x1, y2, z2), BlockPos(x2, y2, z2) >>

\* Option<BlockRegion>
None == [some |-> FALSE]
Some(v) == [some |-> TRUE, val |-> v]

\* (a - b) / 2 on i64 truncates toward zero; the operand is max - min.
HalfSize(n) == IF n >= 0 THEN n \div 2 ELSE -((-n) \div 2)

\* `+= 1`, `-= 1`, `max - min`, `min + half_size` or `halfway + 1` leaves
\* i64: a debug build panics here.
split_excluding_corners_overflows(self, axis) ==
    LET n == self.max[axis] - self.min[axis]
    IN \/ ~fits_i64(self.min[axis] + 1)
       \/ ~fits_i64(self.max[axis] - 1)
       \/ ~fits_i64(n)
       \/ ~fits_i64(self.min[axis] + HalfSize(n))
       \/ ~fits_i64(self.min[axis] + HalfSize(n) + 1)

\* The plain i64 operators wrap in a release build.
split_excluding_corners(self, axis) ==
    LET half_size == HalfSize(wrapping(self.max[axis] - self.min[axis]))
        halfway == wrapping(self.min[axis] + half_size)
        lo == [min |-> [self.min EXCEPT ![axis] = wrapping(@ + 1)],
               max |-> [self.max EXCEPT ![axis] = halfway]]
        hi == [min |-> [self.min EXCEPT ![axis] = wrapping(halfway + 1)],
               max |-> [self.max EXCEPT ![axis] = wrapping(@ - 1)]]
    IN << IF is_valid_on_axis(lo, axis) THEN Some(lo) ELSE None,
          IF is_valid_on_axis(hi, axis) THEN Some(hi) ELSE None >>

split_at(self, axis, coordinate) ==
    LET lo == [self EXCEPT !.max[axis] = Min2(@, coordinate)]
        hi == [self EXCEPT !.min[axis] = Max2(@, coordinate + 1)]
    IN << IF is_valid_on_axis(lo, axis) THEN Some(lo) ELSE None,
          IF is_valid_on_axis(hi, axis) THEN Some(hi) ELSE None >>

----------------------------------------------------------------------------
(* portal.rs : search range tests (Y is ignored) *)

is_in_range_of_point(p, pos, dim) ==
    LET r == portal_search_range(dim)
    IN /\ wrapping(p.region.min.x - r) <= pos.x
       /\ pos.x <= wrapping(p.region.max.x + r)
       /\ wrapping(p.region.min.z - r) <= pos.z
       /\ pos.z <= wrapping(p.region.max.z + r)

\* Building the two inclusive ranges of is_in_range_of_point overflows: a
\* debug build panics (the z range is built only when x is contained).
is_in_range_of_point_overflows(p, pos, dim) ==
    LET r == portal_search_range(dim)
    IN \/ ~fits_i64(p.region.min.x - r)
       \/ ~fits_i64(p.region.max.x + r)
       \/ /\ p.region.min.x - r <= pos.x
          /\ pos.x <= p.region.max.x + r
          /\ \/ ~fits_i64(p.region.min.z - r)
             \/ ~fits_i64(p.region.max.z + r)

\* Faulty variant: a portal exactly at the search range is not in range.
is_in_range_of_region_Strict(p, region, dim) ==
    LET r == portal_search_range(dim)
    IN /\ p.region.min.x < wrapping(region.max.x + r)
       /\ p.region.min.z < wrapping(region.max.z + r)
       /\ p.region.max.x > wrapping(region.min.x - r)
       /\ p.region.max.z > wrapping(region.min.z - r)

\* `region.max + r` and `region.min - r` are plain i64 operations: they wrap
\* in a release build.
is_in_range_of_region(p, region, dim) ==
    LET r == portal_search_range(dim)
    IN /\ p.region.min.x <= wrapping(region.max.x + r)
       /\ p.region.min.z <= wrapping(region.max.z + r)
       /\ p.region.max.x >= wrapping(region.min.x - r)
       /\ p.region.max.z >= wrapping(region.min.z - r)

\* One of the sums is_in_range_of_region evaluates leaves i64 (&& evaluates
\* its right operand only when the left one is true): a debug build panics.
is_in_range_of_region_overflows(p, region, dim) ==
    LET r == portal_search_range(dim)
    IN \/ ~fits_i64(region.max.x + r)
       \/ /\ p.region.min.x <= region.max.x + r
          /\ \/ ~fits_i64(region.max.z + r)
             \/ /\ p.region.min.z <= region.max.z + r
                /\ \/ ~fits_i64(region.min.x - r)
                   \/ /\ p.region.max.x >= region.min.x - r
                      /\ ~fits_i64(region.min.z - r)

\* A subtraction of max_range_distance_to leaves i64: a debug build panics.
max_range_distance_to_overflows(s1, e1, s2, e2) ==
    \E pos \in {s1, e1} :
        \/ e2 < pos /\ ~fits_i64(pos - e2)
        \/ pos < s2 /\ ~fits_i64(s2 - pos)

is_always_in_range_of_region_overflows(p, region, dim) ==
    LET r == portal_search_range(dim)
    IN \/ max_range_distance_to_overflows(region.min.x, region.max.x,
                                          p.region.min.x, p.region.max.x)
       \/ /\ max_range_distance_to(region.min.x, region.max.x,
                                   p.region.min.x, p.region.max.x) <= r
          /\ max_range_distance_to_overflows(region.min.z, region.max.z,
                                             p.region.min.z, p.region.max.z)

is_always_in_range_of_region(p, region, dim) ==
    LET r == portal_search_range(dim)
    IN /\ max_range_distance_to(region.min.x, region.max.x,
                                p.region.min.x, p.region.max.x) <= r
       /\ max_range_distance_to(region.min.z, region.max.z,
                                p.region.min.z, p.region.max.z) <= r

----------------------------------------------------------------------------
(* world.rs : minima_by_opt_key.  `keys[i]` is f(&items[i]), an Option.    *)

RECURSIVE MinimaLoop(_, _, _, _, _)
\* One iteration of `for item in iter` per call; i is the next index.
MinimaLoop(items, keys, i, min_key, ret) ==
    IF i > Len(items) THEN ret
    ELSE IF ~keys[i].some THEN MinimaLoop(items, keys, i + 1, min_key, ret)
    ELSE IF (~min_key.some) \/ keys[i].val < min_key.val
         THEN MinimaLoop(items, keys, i + 1, Some(keys[i].val), <<items[i]>>)
    ELSE IF min_key = Some(keys[i].val)
         THEN MinimaLoop(items, keys, i + 1, min_key, Append(ret, items[i]))
    ELSE MinimaLoop(items, keys, i + 1, min_key, ret)

\* Faulty variant: a tie is not pushed, only the first minimal item is kept.
RECURSIVE MinimaLoopFirstOnly(_, _, _, _, _)
MinimaLoopFirstOnly(items, keys, i, min_key, ret) ==
    IF i > Len(items) THEN ret
    ELSE IF ~keys[i].some THEN MinimaLoopFirstOnly(items, keys, i + 1, min_key, ret)
    ELSE IF (~min_key.some) \/ keys[i].val < min_key.val
         THEN MinimaLoopFirstOnly(items, keys, i + 1, Some(keys[i].val), <<items[i]>>)
    ELSE MinimaLoopFirstOnly(items, keys, i + 1, min_key, ret)

minima_by_opt_key_FirstOnly(items, keys) ==
    MinimaLoopFirstOnly(items, keys, 1, None, <<>>)

\* Faulty variant: every later item whose key is not smaller is pushed, tied or not.
RECURSIVE MinimaLoopKeepsLarger(_, _, _, _, _)
MinimaLoopKeepsLarger(items, keys, i, min_key, ret) ==
    IF i > Len(items) THEN ret
    ELSE IF ~keys[i].some THEN MinimaLoopKeepsLarger(items, keys, i + 1, min_key, ret)
    ELSE IF (~min_key.some) \/ keys[i].val < min_key.val
         THEN MinimaLoopKeepsLarger(items, keys, i + 1, Some(keys[i].val), <<items[i]>>)
    ELSE MinimaLoopKeepsLarger(items, keys, i + 1, min_key, Append(ret, items[i]))

minima_by_opt_key_KeepsLarger(items, keys) ==
    MinimaLoopKeepsLarger(items, keys, 1, None, <<>>)

\* Faulty variant: a tied item is put in front of the items kept so far.
RECURSIVE MinimaLoopPrepends(_, _, _, _, _)
MinimaLoopPrepends(items, keys, i, min_key, ret) ==
    IF i > Len(items) THEN ret
    ELSE IF ~keys[i].some THEN MinimaLoopPrepends(items, keys, i + 1, min_key, ret)
    ELSE IF (~min_key.some) \/ keys[i].val < min_key.val
         THEN MinimaLoopPrepends(items, keys, i + 1, Some(keys[i].val), <<items[i]>>)
    ELSE IF min_key = Some(keys[i].val)
         THEN MinimaLoopPrepends(items, keys, i + 1, min_key, <<items[i]>> \o ret)
    ELSE MinimaLoopPrepends(items, keys, i + 1, min_key, ret)

minima_by_opt_key_Prepends(items, keys) ==
    MinimaLoopPrepends(items, keys, 1, None, <<>>)

minima_by_opt_key(items, keys) == MinimaLoop(items, keys, 1, None, <<>>)

----------------------------------------------------------------------------
(* world.rs : the resolver.  Candidates are referred to by their 1-based   *)
(* position in `cands` (the code's 0-based usize index plus one).  The     *)
(* accumulators passed by &mut are threaded through as the record `acc`.   *)

SeqRange(s) == { s[i] : i \in DOMAIN s }

\* `.min()` of the max distances of the always-in-range candidates;
\* None stands for `unwrap_or(i64::MAX)`, which no distance exceeds.
smallest_max_distance(dim, region, cands, might) ==
    LET always == { p \in SeqRange(might) :
                      is_always_in_range_of_region(cands[p], region, dim) }
        ds == { max_euclidean_distance_sq_to(region, cands[p].region) : p \in always }
    IN IF always = {} THEN None
       ELSE Some(CHOOSE d \in ds : \A e \in ds : d <= e)

\* The key closure of the corner evaluation: `.then(|| distance)`.
CornerKey(dim, cands, p, corner) ==
    IF is_in_range_of_point(cands[p], corner, dim)
    THEN Some(min_euclidean_distance_sq_to_point(cands[p].region, corner))
    ELSE None

closest_at_corner(dim, cands, might, corner) ==
    minima_by_opt_key(might,
        [i \in DOMAIN might |-> CornerKey(dim, cands, might[i], corner)])

\* corner1 ^ (1 << axis), on 0-based corner indices below 8
FlipBit(corner1, axis) ==
    LET b == 2 ^ AxisIndex(axis)
    IN IF (corner1 \div b) % 2 = 0 THEN corner1 + b ELSE corner1 - b

should_split_along_axis(closest, axis) ==
    \E corner1 \in 0 .. 7 :
        LET corner2 == FlipBit(corner1, axis)
        IN corner1 < corner2 /\ closest[corner1 + 1] # closest[corner2 + 1]

\* Faulty variant: the axes already split for a corner disagreement are not
\* skipped.
DisambiguatingSplit_AnyAxis(region, cands, unconfirmed, axes_to_split_along) ==
    LET n == Len(unconfirmed) * 6
        P(k) == unconfirmed[((k - 1) \div 6) + 1]
        A(k) == AxisALL[(((k - 1) % 6) \div 2) + 1]
        SP(k) == IF (k - 1) % 2 = 0 THEN cands[P(k)].region.min[A(k)]
                                     ELSE cands[P(k)].region.max[A(k)]
        Takes(k) ==
            /\ region.min[A(k)] <= SP(k) /\ SP(k) <= region.max[A(k)]
            /\ LET halves == split_at(region, A(k), SP(k))
               IN halves[1].some /\ halves[2].some
        ks == { k \in 1 .. n : Takes(k) }
    IN IF ks = {} THEN None
       ELSE LET k == CHOOSE k1 \in ks : \A k2 \in ks : k1 <= k2
            IN Some([axis |-> A(k), split_point |-> SP(k)])

\* The (axis, split_point) the disambiguating loop takes first, if any:
\* for p in unconfirmed, for axis in ALL (skipping split axes), for
\* split_point in [min, max], the first that lies in the region and splits
\* it into two non-empty halves.
DisambiguatingSplit(region, cands, unconfirmed, axes_to_split_along) ==
    LET n == Len(unconfirmed) * 6
        P(k) == unconfirmed[((k - 1) \div 6) + 1]
        A(k) == AxisALL[(((k - 1) % 6) \div 2) + 1]
        SP(k) == IF (k - 1) % 2 = 0 THEN cands[P(k)].region.min[A(k)]
                                     ELSE cands[P(k)].region.max[A(k)]
        Takes(k) ==
            /\ ~axes_to_split_along[AxisIndex(A(k)) + 1]
            /\ region.min[A(k)] <= SP(k) /\ SP(k) <= region.max[A(k)]
            /\ LET halves == split_at(region, A(k), SP(k))
               IN halves[1].some /\ halves[2].some
        ks == { k \in 1 .. n : Takes(k) }
    IN IF ks = {} THEN None
       ELSE LET k == CHOOSE k1 \in ks : \A k2 \in ks : k1 <= k2
            IN Some([axis |-> A(k), split_point |-> SP(k)])

\* Faulty variant: the emptiness test is inverted.
any_corner_is_empty_Inverted(closest) == \E c \in 1 .. 8 : closest[c] # <<>>

\* `closest_at_each_corner.iter().any(|c| c.is_empty())`
any_corner_is_empty(closest) == \E c \in 1 .. 8 : closest[c] = <<>>

\* The two retain() calls with < in place of <= in the second.
PruneCandidates_StrictDominance(dim, region, cands, might0) ==
    LET might1 == SelectSeq(might0,
                    LAMBDA p : is_in_range_of_region(cands[p], region, dim))
        smd == smallest_max_distance(dim, region, cands, might1)
    IN SelectSeq(might1,
            LAMBDA p : (~smd.some) \/
                min_euclidean_distance_sq_to(region, cands[p].region) < smd.val)

\* Faulty variant: the bound is the smallest minimum distance of an
\* always-in-range candidate instead of its smallest maximum distance.
PruneCandidates_BoundFromMin(dim, region, cands, might0) ==
    LET might1 == SelectSeq(might0,
                    LAMBDA p : is_in_range_of_region(cands[p], region, dim))
        ds == { min_euclidean_distance_sq_to(region, cands[p].region) :
                  p \in { q \in SeqRange(might1) :
                            is_always_in_range_of_region(cands[q], region, dim) } }
    IN SelectSeq(might1,
            LAMBDA p : \A d \in ds :
                min_euclidean_distance_sq_to(region, cands[p].region) <= d)

\* The two retain() calls at the head of mark_reachable_portals.
PruneCandidates(dim, region, cands, might0) ==
    LET \* Filter for portals within the search range
        might1 == SelectSeq(might0,
                    LAMBDA p : is_in_range_of_region(cands[p], region, dim))
        \* Filter for portals not strictly farther than an always-in-range one
        smd == smallest_max_distance(dim, region, cands, might1)
    IN SelectSeq(might1,
            LAMBDA p : (~smd.some) \/
                min_euclidean_distance_sq_to(region, cands[p].region) <= smd.val)

\* closest_at_each_corner, indexed 1..8 for the corners 0..7
closest_at_each_corner(dim, region, cands, might) ==
    [c \in 1 .. 8 |-> closest_at_corner(dim, cands, might, corners(region)[c])]

\* *steps += 1, *may_generate_new_portal |= ..., confirmed_reachable[p] = true
\* Faulty variant: the marks are assigned (=) instead of accumulated (|=).
MarkCorners_Assigns(acc0, closest) ==
    [steps |-> acc0.steps + 1,
     may_generate_new_portal |-> any_corner_is_empty(closest),
     confirmed_reachable |->
         [p \in DOMAIN acc0.confirmed_reachable |->
             \E c \in 1 .. 8 : p \in SeqRange(closest[c])]]

MarkCorners(acc0, closest) ==
    [steps |-> acc0.steps + 1,
     may_generate_new_portal |->
         acc0.may_generate_new_portal \/ any_corner_is_empty(closest),
     confirmed_reachable |->
         [p \in DOMAIN acc0.confirmed_reachable |->
             acc0.confirmed_reachable[p]
                 \/ \E c \in 1 .. 8 : p \in SeqRange(closest[c])]]

\* `unconfirmed_candidates`: the candidates not yet confirmed, in order
unconfirmed_candidates(might, acc) ==
    SelectSeq(might, LAMBDA p : ~acc.confirmed_reachable[p])

RECURSIVE mark_reachable_portals(_, _, _, _, _)

\* The recursive calls on the two halves of a split, lo then hi, each made
\* only if the half is Some.
MarkHalves(dim, cands, might, halves, acc) ==
    LET after_lo == IF halves[1].some
                    THEN mark_reachable_portals(dim, halves[1].val, cands, might, acc)
                    ELSE acc
    IN IF halves[2].some
       THEN mark_reachable_portals(dim, halves[2].val, cands, might, after_lo)
       ELSE after_lo

\* `Axis::ALL.map(...)`: the axes from the a-th on, split where the corners
\* disagree.
RECURSIVE SplitAlongAxes(_, _, _, _, _, _, _)
SplitAlongAxes(dim, region, cands, might, axes, a, acc) ==
    IF a > 3 THEN acc
    ELSE SplitAlongAxes(dim, region, cands, might, axes, a + 1,
            IF axes[a]
            THEN MarkHalves(dim, cands, might,
                            split_excluding_corners(region, AxisALL[a]), acc)
            ELSE acc)

\* The loop over the unconfirmed candidates that ends mark_reachable_portals.
SplitForUnconfirmed(dim, region, cands, might, axes, acc) ==
    LET split == DisambiguatingSplit(region, cands,
                     unconfirmed_candidates(might, acc), axes)
    IN IF split.some
       THEN MarkHalves(dim, cands, might,
                split_at(region, split.val.axis, split.val.split_point), acc)
       ELSE acc

\* mark_reachable_portals from the corner evaluation on.
MarkFromCorners(dim, region, cands, might, closest, acc1) ==
    IF unconfirmed_candidates(might, acc1) = <<>>
    THEN acc1   \* done! confirmed reachability for all
    ELSE LET axes == [a \in 1 .. 3 |-> should_split_along_axis(closest, AxisALL[a])]
         IN SplitForUnconfirmed(dim, region, cands, might, axes,
                SplitAlongAxes(dim, region, cands, might, axes, 1, acc1))

\* mark_reachable_portals after the two retain() calls.
MarkPruned(dim, region, cands, might, acc0) ==
    LET closest == closest_at_each_corner(dim, region, cands, might)
    IN MarkFromCorners(dim, region, cands, might, closest, MarkCorners(acc0, closest))

mark_reachable_portals(dim, region, cands, might0, acc0) ==
    MarkPruned(dim, region, cands, PruneCandidates(dim, region, cands, might0), acc0)

\* Faulty variant: an empty candidate list is answered with the default result.
portal_destinations_EmptyShortcut(dim, region, cands) ==
    LET acc == mark_reachable_portals(dim, region, cands,
                   [i \in 1 .. Len(cands) |-> i],
                   [steps |-> 0,
                    may_generate_new_portal |-> FALSE,
                    confirmed_reachable |-> [i \in 1 .. Len(cands) |-> FALSE]])
    IN IF cands = <<>>
       THEN [existing_portals |-> <<>>, new_portal |-> FALSE, steps |-> 0]
       ELSE [existing_portals |->
                SelectSeq([i \in 1 .. Len(cands) |-> i],
                          LAMBDA i : acc.confirmed_reachable[i]),
             new_portal |-> acc.may_generate_new_portal,
             steps |-> acc.steps]

\* Faulty variant: confirmed_reachable is a buffer kept from the previous
\* call (whose result is `actual`) instead of a fresh vec![false; n].
portal_destinations_StaleBuffer(dim, region, cands) ==
    LET acc == mark_reachable_portals(dim, region, cands,
                   [i \in 1 .. Len(cands) |-> i],
                   [steps |-> 0,
                    may_generate_new_portal |-> FALSE,
                    confirmed_reachable |->
                        [i \in 1 .. Len(cands) |->
                            i \in { actual.existing_portals[k] :
                                       k \in DOMAIN actual.existing_portals }]])
    IN [existing_portals |->
            SelectSeq([i \in 1 .. Len(cands) |-> i],
                      LAMBDA i : acc.confirmed_reachable[i]),
        new_portal |-> acc.may_generate_new_portal,
        steps |-> acc.steps]

\* PortalDestinations: existing_portals as the sequence of candidate
\* positions (in list order), and new_portal.
portal_destinations(dim, region, cands) ==
    LET acc == mark_reachable_portals(dim, region, cands,
                   [i \in 1 .. Len(cands) |-> i],
                   [steps |-> 0,
                    may_generate_new_portal |-> FALSE,
                    confirmed_reachable |-> [i \in 1 .. Len(cands) |-> FALSE]])
    IN [existing_portals |->
            SelectSeq([i \in 1 .. Len(cands) |-> i],
                      LAMBDA i : acc.confirmed_reachable[i]),
        new_portal |-> acc.may_generate_new_portal,
        steps |-> acc.steps]

\* The distance the naive scan stores for candidate i at `point`;
\* None stands for the i64::MAX marker.
NaiveDistance(dim, cands, i, point) ==
    IF is_in_range_of_point(cands[i], point, dim)
    THEN Some(min_euclidean_distance_sq_to_point(cands[i].region, point))
    ELSE None

\* The candidates the naive scan marks at `point` (none when min_distance
\* is the i64::MAX marker).
NaiveWinnersAt(dim, cands, point) ==
    LET distances == [i \in 1 .. Len(cands) |-> NaiveDistance(dim, cands, i, point)]
        inr == { i \in 1 .. Len(cands) : distances[i].some }
    IN { i \in inr : \A j \in inr : distances[i].val <= distances[j].val }

portal_destinations_naive(dim, region, cands) ==
    LET winners == [pt \in RegionBlocks(region) |-> NaiveWinnersAt(dim, cands, pt)]
        marked == UNION { winners[pt] : pt \in DOMAIN winners }
    IN [existing_portals |->
            SelectSeq([i \in 1 .. Len(cands) |-> i], LAMBDA i : i \in marked),
        new_portal |-> \E pt \in DOMAIN winners : winners[pt] = {}]

----------------------------------------------------------------------------
(* portal.rs : Portal::new_test, with the id the counter hands out given   *)
(* as an argument.  The axis is inferred from the region.                  *)

PortalAxisX == "PX"
PortalAxisZ == "PZ"

new_test(id, min, max) ==
    [id |-> id,
     region |-> BlockRegion(min, max),
     axis |-> IF min.x = max.x THEN PortalAxisX ELSE PortalAxisZ]

----------------------------------------------------------------------------
(* pos.rs, region.rs : WorldPos and WorldRegion.  An f64 coordinate is a   *)
(* fixed-point number of 1/FixedOne block; every size and scale the model  *)
(* draws is a whole number of units after halving and after dividing by    *)
(* the nether scale.  Like i64, f64 is modelled narrower than it is: it    *)
(* keeps FloatBits significant bits (53 in the code, 10 bits short of the  *)
(* 63 of an i64 magnitude), so that whole numbers from 2^FloatBits on      *)
(* are rounded, ties to even.  Below 2^(FloatBits - 1) blocks, where the   *)
(* doubles are less than a block apart, the arithmetic is taken as exact.  *)

FixedOne == 8000

\* Significant bits of the modelled f64.
FloatBits == IntBits - 2

\* The distance between neighbouring doubles at magnitude a (in units),
\* for a of at least 2^(FloatBits - 1) blocks: 2^k blocks.
RECURSIVE ulp(_, _)
ulp(a, k) ==
    IF a < (2 ^ (FloatBits + k)) * FixedOne THEN (2 ^ k) * FixedOne
    ELSE ulp(a, k + 1)

\* The double nearest to v (round to nearest, ties to even): the result of
\* an f64 operation or of `as f64` whose exact value is v.
f64(v) ==
    LET a == IF v < 0 THEN -v ELSE v
    IN IF a < (2 ^ (FloatBits - 1)) * FixedOne THEN v
       ELSE LET s == ulp(a, 0)
                lo == a \div s
                n == IF 2 * (a % s) > s \/ (2 * (a % s) = s /\ lo % 2 = 1)
                     THEN lo + 1 ELSE lo
            IN IF v < 0 THEN -(n * s) ELSE n * s

\* From<BlockPos> for WorldPos: `as f64` on each axis
WorldPosFrom(pos) == [a \in {AxisX, AxisY, AxisZ} |-> f64(pos[a] * FixedOne)]

\* From<WorldPos> for BlockPos: floor, then `as i64`, which saturates
BlockPosFrom(pos) ==
    [a \in {AxisX, AxisY, AxisZ} |-> saturating(pos[a] \div FixedOne)]

\* From<BlockRegion> for WorldRegion: max is the far face of the max block
WorldRegionFrom(value) ==
    [min |-> WorldPosFrom(value.min),
     max |-> [a \in {AxisX, AxisY, AxisZ} |->
                f64(WorldPosFrom(value.max)[a] + FixedOne)]]

nether_to_overworld_pos(pos) ==
    [pos EXCEPT !.x = @ * scale(Nether), !.z = @ * scale(Nether)]

overworld_to_nether_pos(pos) ==
    [pos EXCEPT !.x = @ \div scale(Nether), !.z = @ \div scale(Nether)]

nether_to_overworld(region) ==
    [min |-> nether_to_overworld_pos(region.min),
     max |-> nether_to_overworld_pos(region.max)]

overworld_to_nether(region) ==
    [min |-> overworld_to_nether_pos(region.min),
     max |-> overworld_to_nether_pos(region.max)]

convert_dimension(region, from, to) ==
    IF from = Overworld /\ to = Nether THEN overworld_to_nether(region)
    ELSE IF from = Nether /\ to = Overworld THEN nether_to_overworld(region)
    ELSE region

block_region_containing(region) ==
    BlockRegion(BlockPosFrom(region.min), BlockPosFrom(region.max))

\* WorldRegion::is_valid with < in place of <=
is_valid_Strict(region) ==
    /\ region.min.x < region.max.x
    /\ region.min.y < region.max.y
    /\ region.min.z < region.max.z

\* WorldRegion::is_valid
is_valid(region) ==
    /\ region.min.x <= region.max.x
    /\ region.min.y <= region.max.y
    /\ region.min.z <= region.max.z

----------------------------------------------------------------------------
(* entity.rs : Entity, sizes in fixed-point units *)

Entity(width, height, is_projectile) ==
    [width |-> width, height |-> height, is_projectile |-> is_projectile]

PLAYER == Entity((6 * FixedOne) \div 10, (18 * FixedOne) \div 10, FALSE)
ENDER_PEARL == Entity(FixedOne \div 4, FixedOne \div 4, TRUE)
ARROW == Entity(FixedOne \div 2, FixedOne \div 2, TRUE)
GHAST == Entity(4 * FixedOne, 4 * FixedOne, FALSE)
ITEM == Entity(FixedOne \div 4, FixedOne \div 4, FALSE)

----------------------------------------------------------------------------
(* portal.rs : portal geometry *)

MIN_WIDTH == 2
MIN_HEIGHT == 3
MIN_DW == MIN_WIDTH - 1
MIN_DH == MIN_HEIGHT - 1

\* PortalAxis::other followed by From<PortalAxis> for Axis
width_axis(p) == IF p.axis = PortalAxisX THEN AxisZ ELSE AxisX

depth_axis(p) == IF p.axis = PortalAxisX THEN AxisX ELSE AxisZ

entity_collision_region(p, entity) ==
    LET w == width_axis(p)
        half == entity.width \div 2
        r0 == WorldRegionFrom(p.region)
        r1 == [min |-> [r0.min EXCEPT !.x = f64(@ - half), !.z = f64(@ - half)],
               max |-> [r0.max EXCEPT !.x = f64(@ + half), !.z = f64(@ + half)]]
        r2 == IF entity.is_projectile
              THEN [r1 EXCEPT !.min.y = f64(@ - entity.height)]
              ELSE r1
        r3 == IF ~entity.is_projectile
              THEN [min |-> [r2.min EXCEPT ![w] = f64(@ + entity.width)],
                    max |-> [r2.max EXCEPT ![w] = f64(@ - entity.width),
                                           !.y = f64(@ - entity.height)]]
              ELSE r2
    IN IF is_valid(r3) THEN Some(r3) ELSE None

\* Portal::destination_region
portal_destination_region(p, entity, dest) ==
    LET collision_region == entity_collision_region(p, entity)
    IN IF collision_region.some
       THEN Some(block_region_containing(
                     convert_dimension(collision_region.val, other(dest), dest)))
       ELSE None

\* Portal::new_minimal, with the id PortalId::new() hands out as an argument
new_minimal(id, pos, axis, dim) ==
    [id |-> id,
     region |->
        BlockRegion(
            BlockPos(pos.x, Min2(pos.y, y_max(dim) - MIN_HEIGHT), pos.z),
            BlockPos(wrapping(pos.x + (IF axis # PortalAxisX THEN 1 ELSE 0) * MIN_DW),
                     wrapping(pos.y + MIN_DH),
                     wrapping(pos.z + (IF axis # PortalAxisZ THEN 1 ELSE 0) * MIN_DW))),
     axis |-> axis]

----------------------------------------------------------------------------
(* portal.rs : the mutators.  The closure a mutator runs is given by what  *)
(* it writes: None (it leaves the value alone) or Some of the new value;   *)
(* for a BlockPos, Some([axis, value]) overwrites one coordinate.          *)

WritePos(pos, f) == IF f.some THEN [pos EXCEPT ![f.val.axis] = f.val.value] ELSE pos

WriteValue(old, f) == IF f.some THEN f.val ELSE old

adjust_min(p, f, lock_size, dim) ==
    LET w == width_axis(p)
        h == AxisY
        d == depth_axis(p)
        min0 == p.region.min
        max0 == p.region.max
        dw == saturating_sub(max0[w], min0[w])
        dd == saturating_sub(max0[d], min0[d])
        dh == saturating_sub(max0[h], min0[h])
        min1 == WritePos(min0, f)
        lowest_min_y == y_min(dim) + 1
        highest_min_y == Max2(wrapping(y_max(dim) - 1 - dh), lowest_min_y)
        min2 == [min1 EXCEPT !.y = clamp(@, lowest_min_y, highest_min_y)]
        max2 == IF lock_size
                THEN [a \in {AxisX, AxisY, AxisZ} |->
                        IF a = w THEN saturating_add(min2[w], dw)
                        ELSE IF a = h THEN saturating_add(min2[h], dh)
                        ELSE saturating_add(min2[d], dd)]
                ELSE [a \in {AxisX, AxisY, AxisZ} |->
                        IF a = w THEN Max2(max0[w], saturating_add(min2[w], MIN_DW))
                        ELSE IF a = h THEN Max2(max0[h], saturating_add(min2[h], MIN_DH))
                        ELSE Max2(max0[d], min2[d])]
    IN [p EXCEPT !.region = BlockRegion(min2, max2)]

adjust_max(p, f, lock_size, dim) ==
    LET w == width_axis(p)
        h == AxisY
        d == depth_axis(p)
        min0 == p.region.min
        max0 == p.region.max
        dw == saturating_sub(max0[w], min0[w])
        dd == saturating_sub(max0[d], min0[d])
        dh == saturating_sub(max0[h], min0[h])
        max1 == WritePos(max0, f)
        highest_min_y == y_max(dim) - 1
        lowest_min_y == Min2(wrapping(y_min(dim) + 1 + dh), highest_min_y)
        max2 == [max1 EXCEPT !.y = clamp(@, lowest_min_y, highest_min_y)]
        min2 == IF lock_size
                THEN [a \in {AxisX, AxisY, AxisZ} |->
                        IF a = w THEN saturating_sub(max2[w], dw)
                        ELSE IF a = h THEN saturating_sub(max2[h], dh)
                        ELSE saturating_sub(max2[d], dd)]
                ELSE [a \in {AxisX, AxisY, AxisZ} |->
                        IF a = w THEN Min2(min0[w], saturating_sub(max2[w], MIN_DW))
                        ELSE IF a = h THEN Min2(min0[h], saturating_sub(max2[h], MIN_DH))
                        ELSE Min2(min0[d], max2[d])]
    IN [p EXCEPT !.region = BlockRegion(min2, max2)]

\* `max[w] - min[w] + 1` leaves i64: a debug build panics here.
adjust_width_overflows(p) ==
    LET w == width_axis(p)
    IN \/ ~fits_i64(p.region.max[w] - p.region.min[w])
       \/ ~fits_i64(p.region.max[w] - p.region.min[w] + 1)

adjust_width(p, f) ==
    LET w == width_axis(p)
        width0 == wrapping(wrapping(p.region.max[w] - p.region.min[w]) + 1)
        width1 == WriteValue(width0, f)
        width2 == Max2(width1, MIN_WIDTH)
    IN [p EXCEPT !.region.max[w] = saturating_add(p.region.min[w], width2 - 1)]

\* adjust_height as it would be if the top were kept and the bottom moved.
adjust_height_AnchorsTop(p, f, dim) ==
    LET height0 == wrapping(wrapping(p.region.max.y - p.region.min.y) + 1)
        height1 == WriteValue(height0, f)
        height2 == Max2(height1, MIN_HEIGHT)
        min_y == saturating_sub(p.region.max.y, height2 - 1)
    IN [p EXCEPT !.region.min.y = Max2(min_y, y_min(dim) + 1)]

adjust_height(p, f, dim) ==
    LET height0 == wrapping(wrapping(p.region.max.y - p.region.min.y) + 1)
        height1 == WriteValue(height0, f)
        height2 == Max2(height1, MIN_HEIGHT)
        max_y == saturating_add(p.region.min.y, height2 - 1)
        excess == wrapping(max_y - (y_max(dim) - 1))
        min_y == wrapping(p.region.min.y - excess)
    IN IF max_y > y_max(dim) - 1
       THEN [p EXCEPT !.region.max.y = wrapping(max_y - excess),
                      !.region.min.y = IF min_y < y_min(dim) + 1
                                       THEN y_min(dim) + 1 ELSE min_y]
       ELSE [p EXCEPT !.region.max.y = max_y]

\* `max[w] - min[w]` or `min[w] + dw` leaves i64: a debug build panics here.
adjust_axis_overflows(p, f) ==
    LET w0 == width_axis(p)
        dw == p.region.max[w0] - p.region.min[w0]
        p1 == [p EXCEPT !.axis = WriteValue(@, f)]
    IN \/ ~fits_i64(dw)
       \/ ~fits_i64(p.region.min[width_axis(p1)] + dw)

adjust_axis(p, f) ==
    LET w0 == width_axis(p)
        dw == wrapping(p.region.max[w0] - p.region.min[w0])
        p1 == [p EXCEPT !.axis = WriteValue(@, f)]
        w == width_axis(p1)
        d == depth_axis(p1)
    IN [p1 EXCEPT !.region.max =
            [a \in {AxisX, AxisY, AxisZ} |->
                IF a = w THEN wrapping(p.region.min[w] + dw)
                ELSE IF a = d THEN p.region.min[d]
                ELSE p.region.max[a]]]

\* world.rs tests : random_portal, from the values the strategy drew
random_portal(id, dim, x, y, z, width, height, axis) ==
    adjust_height(
        adjust_width(new_minimal(id, BlockPos(x, y, z), axis, dim), Some(width)),
        Some(height), dim)

----------------------------------------------------------------------------
(* The inputs of the resolver.                                             *)

\* Longest candidate list drawn.
MaxPortals == 3
\* Largest max - min of a drawn region along x and along z.
MaxExtent == 2

\* Portals around the regions drawn below, placed relative to the search
\* range r of the dimension: two that are in range only of one end layer of
\* the region along x, a far one that a nearer one dominates wherever it is
\* in range, and three near ones (beside, below and inside the region).
PortalPool(dim) ==
    LET r == portal_search_range(dim)
    IN << new_test(1, BlockPos(-r - 1, 64, 0), BlockPos(-r, 66, 0)),
          new_test(2, BlockPos(r + 2, 64, 0), BlockPos(r + 2, 66, 1)),
          new_test(3, BlockPos(4, 64, 1), BlockPos(4, 66, 2)),
          new_test(4, BlockPos(1, 62, -4), BlockPos(2, 64, -4)),
          new_test(5, BlockPos(1, 64, 2), BlockPos(3, 67, 2)),
          new_test(6, BlockPos(-r - 1, 70, 3), BlockPos(-r, 72, 3)) >>

\* The sub-lists of the pool (in pool order) of at most n portals.
RECURSIVE SubLists(_, _)
SubLists(pool, n) ==
    IF pool = <<>> \/ n = 0 THEN { <<>> }
    ELSE SubLists(Tail(pool), n)
         \cup { <<Head(pool)>> \o t : t \in SubLists(Tail(pool), n - 1) }

CandidateLists(dim) == SubLists(PortalPool(dim), MaxPortals)

Regions ==
    { BlockRegion(BlockPos(0, 64, 0), BlockPos(dx, 64 + dy, dz)) :
        dx \in 0 .. MaxExtent, dy \in 0 .. 1, dz \in 0 .. MaxExtent }

NoResult == [existing_portals |-> <<>>, new_portal |-> FALSE]

\* destination_region before it is computed
NoRegion == BlockRegion(BlockPos(0, 0, 0), BlockPos(0, 0, 0))

\* The accumulators before a call of portal_destinations sets them up
NoMarks == [steps |-> 0, may_generate_new_portal |-> FALSE,
            confirmed_reachable |-> <<>>]

\* WorldPortals::default()
NoWorld == [overworld |-> <<>>, nether |-> <<>>]

----------------------------------------------------------------------------
(* The caller of the resolver, as in test_portal_linking: the naive scan   *)
(* gives `expected`, then the production resolver gives `actual`.  Here    *)
(* the region is drawn directly; no portal is edited and no collision      *)
(* region is computed.                                                     *)

Init ==
    /\ destination_dimension \in Dimensions
    /\ candidates \in CandidateLists(destination_dimension)
    /\ destination_region \in Regions
    /\ pc = "start"
    /\ actual = NoResult
    /\ expected = NoResult
    /\ dimension = other(destination_dimension)
    /\ portal = None
    /\ prefs_entity = PLAYER
    /\ collision = None
    /\ edits = 0
    /\ call_stack = <<>>
    /\ marks = NoMarks
    /\ world = NoWorld
    /\ repeated = NoResult
    /\ COUNTER = 1
    /\ threads = <<>>
    /\ cached_links = <<>>
    /\ input = None
    /\ output = None

CallNaive ==
    /\ pc = "start"
    /\ expected' = portal_destinations_naive(destination_dimension,
                                             destination_region, candidates)
    /\ pc' = "expected"
    /\ UNCHANGED <<COUNTER, threads, cached_links, input, output,
                   call_stack, marks, world, repeated, destination_dimension, destination_region, candidates, actual,
                   dimension, portal, prefs_entity, collision, edits>>

CallProduction ==
    /\ pc = "expected"
    /\ actual' = portal_destinations(destination_dimension,
                                     destination_region, candidates)
    /\ pc' = "done"
    /\ UNCHANGED <<COUNTER, threads, cached_links, input, output,
                   call_stack, marks, world, repeated, destination_dimension, destination_region, candidates, expected,
                   dimension, portal, prefs_entity, collision, edits>>

Next == CallNaive \/ CallProduction

Spec == Init /\ [][Next]_vars

----------------------------------------------------------------------------
(* portal_destinations call by call: each invocation of                    *)
(* mark_reachable_portals is one step.  `call_stack` holds the invocations *)
(* still to be made, the next one first; an invocation that splits where   *)
(* the corners disagree leaves a "resume" entry behind its sub-calls, for  *)
(* the disambiguating loop that runs once they have returned.              *)

\* Regions at the ends of i64, where `region.max + r` leaves the type.
ExtremeRegions ==
    { BlockRegion(BlockPos(I64_MAX - dx, 64, 0), BlockPos(I64_MAX, 65, 1)) :
        dx \in 0 .. 1 }
    \cup { BlockRegion(BlockPos(0, 64, I64_MIN), BlockPos(1, 65, I64_MIN + 1)) }

\* The calls on the halves of a split that are Some, lo first.
HalfCalls(region, might, halves) ==
    [k \in 1 .. Len(SelectSeq(halves, LAMBDA h : h.some)) |->
        [kind |-> "call",
         region |-> SelectSeq(halves, LAMBDA h : h.some)[k].val,
         might |-> might,
         caller |-> Some(region)]]

\* Lists in which two portals flank the region along x: at equal distance
\* with a third beside the region along z, and next to its two ends with a
\* third beside its middle layer.
FlankedLists(dim) ==
    { << PortalPool(dim)[3], PortalPool(dim)[4],
         new_test(7, BlockPos(-3, 64, 1), BlockPos(-3, 66, 2)) >>,
      << new_test(8, BlockPos(-1, 64, 0), BlockPos(-1, 66, 0)),
         new_test(9, BlockPos(1, 64, 1), BlockPos(1, 66, 1)),
         new_test(10, BlockPos(3, 64, 0), BlockPos(3, 66, 0)) >> }

InitRecurse ==
    /\ destination_dimension \in Dimensions
    /\ candidates \in CandidateLists(destination_dimension)
                        \cup FlankedLists(destination_dimension)
    /\ destination_region \in Regions \cup ExtremeRegions
    /\ pc = "marking"
    /\ call_stack = << [kind |-> "call",
                        region |-> destination_region,
                        might |-> [i \in 1 .. Len(candidates) |-> i],
                        caller |-> None] >>
    /\ marks = [steps |-> 0,
                may_generate_new_portal |-> FALSE,
                confirmed_reachable |-> [i \in 1 .. Len(candidates) |-> FALSE]]
    /\ actual = NoResult
    /\ expected = NoResult
    /\ repeated = NoResult
    /\ COUNTER = 1
    /\ threads = <<>>
    /\ cached_links = <<>>
    /\ input = None
    /\ output = None
    /\ dimension = other(destination_dimension)
    /\ portal = None
    /\ prefs_entity = PLAYER
    /\ collision = None
    /\ edits = 0
    /\ world = NoWorld

\* One invocation of mark_reachable_portals up to its recursive calls.
EnterCall ==
    /\ pc = "marking"
    /\ call_stack # <<>>
    /\ Head(call_stack).kind = "call"
    /\ LET region == Head(call_stack).region
           might == PruneCandidates(destination_dimension, region, candidates,
                                    Head(call_stack).might)
           closest == closest_at_each_corner(destination_dimension, region,
                                             candidates, might)
           acc1 == MarkCorners(marks, closest)
           axes == [a \in 1 .. 3 |-> should_split_along_axis(closest, AxisALL[a])]
           sub(a) == IF axes[a]
                     THEN HalfCalls(region, might,
                                    split_excluding_corners(region, AxisALL[a]))
                     ELSE <<>>
       IN /\ marks' = acc1
          /\ call_stack' =
                IF unconfirmed_candidates(might, acc1) = <<>>
                THEN Tail(call_stack)   \* done! confirmed reachability for all
                ELSE sub(1) \o sub(2) \o sub(3)
                     \o << [kind |-> "resume", region |-> region,
                            might |-> might, axes |-> axes] >>
                     \o Tail(call_stack)
    /\ UNCHANGED <<COUNTER, threads, cached_links, input, output,
                   world, repeated, destination_dimension, destination_region,
                   candidates, pc, actual, expected, dimension, portal,
                   prefs_entity, collision, edits>>

\* A debug build: the first retain() overflows and the call panics.
EnterCallPanics ==
    /\ pc = "marking"
    /\ call_stack # <<>>
    /\ Head(call_stack).kind = "call"
    /\ \E k \in DOMAIN Head(call_stack).might :
          is_in_range_of_region_overflows(candidates[Head(call_stack).might[k]],
              Head(call_stack).region, destination_dimension)
    /\ pc' = "panicked"
    /\ UNCHANGED <<COUNTER, threads, cached_links, input, output,
                   call_stack, marks, world, repeated, destination_dimension,
                   destination_region, candidates, actual, expected, dimension,
                   portal, prefs_entity, collision, edits>>

\* The rest of an invocation once its sub-calls have returned: the loop
\* over the candidates still unconfirmed, which splits at most once.
ResumeCall ==
    /\ pc = "marking"
    /\ call_stack # <<>>
    /\ Head(call_stack).kind = "resume"
    /\ LET region == Head(call_stack).region
           might == Head(call_stack).might
           split == DisambiguatingSplit(region, candidates,
                        unconfirmed_candidates(might, marks),
                        Head(call_stack).axes)
       IN call_stack' =
             IF split.some
             THEN HalfCalls(region, might,
                      split_at(region, split.val.axis, split.val.split_point))
                  \o Tail(call_stack)
             ELSE Tail(call_stack)
    /\ UNCHANGED <<COUNTER, threads, cached_links, input, output,
                   marks, world, repeated, destination_dimension,
                   destination_region, candidates, pc, actual, expected,
                   dimension, portal, prefs_entity, collision, edits>>

\* The outermost invocation has returned: PortalDestinations is built.
ReturnDestinations ==
    /\ pc = "marking"
    /\ call_stack = <<>>
    /\ actual' = [existing_portals |->
                      SelectSeq([i \in 1 .. Len(candidates) |-> i],
                                LAMBDA i : marks.confirmed_reachable[i]),
                  new_portal |-> marks.may_generate_new_portal,
                  steps |-> marks.steps]
    /\ pc' = "done"
    /\ UNCHANGED <<COUNTER, threads, cached_links, input, output,
                   call_stack, marks, world, repeated, destination_dimension,
                   destination_region, candidates, expected, dimension, portal,
                   prefs_entity, collision, edits>>

NextRecurse == EnterCall \/ EnterCallPanics \/ ResumeCall \/ ReturnDestinations

SpecRecurse == InitRecurse /\ [][NextRecurse]_vars

----------------------------------------------------------------------------
(* test_portal_linking on a world of valid portals: the region is the      *)
(* destination region of a portal of the source dimension for a player,    *)
(* the candidates are the portals of the other dimension.                  *)

\* The portals of a dimension, each as random_portal builds it; portals 4,
\* 1 and 2 are those of test_portal_splitting.
WorldPool(dim) ==
    IF dim = Overworld
    THEN << random_portal(1, Overworld, 88, 60, -15, 3, 3, PortalAxisZ),
            random_portal(2, Overworld, 0, 64, 0, 2, 3, PortalAxisX),
            random_portal(3, Overworld, 200, 64, 7, 10, 3, PortalAxisX) >>
    ELSE << random_portal(4, Nether, 8, 64, 5, 14, 3, PortalAxisX),
            random_portal(5, Nether, 25, 64, -17, 2, 3, PortalAxisX),
            random_portal(6, Nether, 25, 64, 18, 2, 3, PortalAxisX),
            random_portal(7, Nether, 3, 64, 1, 2, 4, PortalAxisZ) >>

InitLink ==
    /\ dimension \in Dimensions
    /\ destination_dimension = other(dimension)
    /\ portal \in SeqRange(WorldPool(dimension))
    /\ candidates \in SubLists(WorldPool(destination_dimension), MaxPortals)
    /\ prefs_entity = PLAYER
    /\ destination_region = NoRegion
    /\ pc = "link"
    /\ actual = NoResult
    /\ expected = NoResult
    /\ collision = None
    /\ edits = 0
    /\ call_stack = <<>>
    /\ marks = NoMarks
    /\ world = NoWorld
    /\ repeated = NoResult
    /\ COUNTER = 1
    /\ threads = <<>>
    /\ cached_links = <<>>
    /\ input = None
    /\ output = None

\* portal.destination_region(Entity::PLAYER, destination_dimension).unwrap()
LinkRegion ==
    /\ pc = "link"
    /\ portal_destination_region(portal, prefs_entity, destination_dimension).some
    /\ destination_region' =
          portal_destination_region(portal, prefs_entity, destination_dimension).val
    /\ pc' = "start"
    /\ UNCHANGED <<COUNTER, threads, cached_links, input, output,
                   call_stack, marks, world, repeated, destination_dimension, candidates, actual, expected,
                   dimension, portal, prefs_entity, collision, edits>>

NextLink == LinkRegion \/ CallNaive \/ CallProduction

SpecLink == InitLink /\ [][NextLink]_vars

----------------------------------------------------------------------------
(* calculate_portal_link_result (main.rs) on a world of portals in both    *)
(* dimensions: the destination region of one of the world's portals is     *)
(* looked up among the portals of the other dimension, and looked up again *)
(* when the links are recalculated with nothing edited in between.         *)

\* Faulty variant: the match arms of the index are exchanged.
WorldIndex_Exchanged(w, dim) == IF dim = Overworld THEN w.nether ELSE w.overworld

\* Index<Dimension> for WorldPortals
WorldIndex(w, dim) == IF dim = Overworld THEN w.overworld ELSE w.nether

Worlds ==
    { [overworld |-> o, nether |-> n] :
        o \in SubLists(WorldPool(Overworld), MaxPortals),
        n \in SubLists(WorldPool(Nether), MaxPortals) }

InitWorld ==
    /\ world \in Worlds
    /\ dimension \in Dimensions
    /\ portal \in SeqRange(WorldIndex(world, dimension))
    /\ destination_dimension = other(dimension)
    /\ prefs_entity = PLAYER
    /\ destination_region = NoRegion
    /\ candidates = <<>>
    /\ pc = "link"
    /\ actual = NoResult
    /\ expected = NoResult
    /\ repeated = NoResult
    /\ COUNTER = 1
    /\ threads = <<>>
    /\ cached_links = <<>>
    /\ input = None
    /\ output = None
    /\ collision = None
    /\ edits = 0
    /\ call_stack = <<>>
    /\ marks = NoMarks

\* self.world.portals.portal_destinations(destination_dimension, region);
\* `candidates` is the slice &self[destination_dimension] the call borrows.
QueryWorld ==
    /\ pc = "start"
    /\ candidates' = WorldIndex(world, destination_dimension)
    /\ actual' = portal_destinations(destination_dimension, destination_region,
                                     WorldIndex(world, destination_dimension))
    /\ pc' = "queried"
    /\ UNCHANGED <<COUNTER, threads, cached_links, input, output,
                   call_stack, marks, world, repeated, destination_dimension, destination_region,
                   expected, dimension, portal, prefs_entity, collision, edits>>

\* The same call once more, on the same &self and the same arguments.
QueryAgain ==
    /\ pc = "queried"
    /\ repeated' = portal_destinations(destination_dimension, destination_region,
                                       WorldIndex(world, destination_dimension))
    /\ pc' = "again"
    /\ UNCHANGED <<COUNTER, threads, cached_links, input, output,
                   call_stack, marks, world, candidates, actual, destination_dimension,
                   destination_region, expected, dimension, portal, prefs_entity,
                   collision, edits>>

NextWorld == LinkRegion \/ QueryWorld \/ QueryAgain

SpecWorld == InitWorld /\ [][NextWorld]_vars

----------------------------------------------------------------------------
(* The portal editor (main.rs): every frame runs the mutators on the       *)
(* portal with closures that hand the value to a DragValue, which leaves   *)
(* it alone or overwrites it with what the user typed.                     *)

\* Longest sequence of mutator calls explored.
MaxEdits == 3

\* What an edit can write into a coordinate, the ends of i64 included.
WrittenCoordinates == {I64_MIN, 0, 100, I64_MAX}

\* What an edit can write into a width or a height.
WrittenSizes == {I64_MIN, 0, 5, I64_MAX}

PosClosures ==
    {None} \cup { Some([axis |-> a, value |-> v]) :
                    a \in {AxisX, AxisY, AxisZ}, v \in WrittenCoordinates }

SizeClosures == {None} \cup { Some(v) : v \in WrittenSizes }

AxisClosures == {None, Some(PortalAxisX), Some(PortalAxisZ)}

InitAdjust ==
    /\ dimension \in Dimensions
    /\ portal \in { new_minimal(1, BlockPos(0, 64, 0), axis, dimension) :
                      axis \in {PortalAxisX, PortalAxisZ} }
    /\ pc = "edit"
    /\ destination_dimension = other(dimension)
    /\ destination_region = NoRegion
    /\ candidates = <<>>
    /\ actual = NoResult
    /\ expected = NoResult
    /\ prefs_entity = PLAYER
    /\ collision = None
    /\ edits = 0
    /\ call_stack = <<>>
    /\ marks = NoMarks
    /\ world = NoWorld
    /\ repeated = NoResult
    /\ COUNTER = 1
    /\ threads = <<>>
    /\ cached_links = <<>>
    /\ input = None
    /\ output = None

AdjustAxis ==
    /\ pc = "edit"
    /\ edits < MaxEdits
    /\ edits' = edits + 1
    /\ \E f \in AxisClosures : portal' = adjust_axis(portal, f)
    /\ UNCHANGED <<COUNTER, threads, cached_links, input, output,
                   call_stack, marks, world, repeated, destination_dimension, destination_region, candidates, pc,
                   actual, expected, dimension, prefs_entity, collision>>

\* A debug build: the overflow check aborts the call.
AdjustAxisPanics ==
    /\ pc = "edit"
    /\ \E f \in AxisClosures : adjust_axis_overflows(portal, f)
    /\ pc' = "panicked"
    /\ UNCHANGED <<COUNTER, threads, cached_links, input, output,
                   call_stack, marks, world, repeated, destination_dimension, destination_region, candidates, portal,
                   actual, expected, dimension, prefs_entity, collision, edits>>

AdjustMin ==
    /\ pc = "edit"
    /\ edits < MaxEdits
    /\ edits' = edits + 1
    /\ \E f \in PosClosures, lock_size \in BOOLEAN :
          portal' = adjust_min(portal, f, lock_size, dimension)
    /\ UNCHANGED <<COUNTER, threads, cached_links, input, output,
                   call_stack, marks, world, repeated, destination_dimension, destination_region, candidates, pc,
                   actual, expected, dimension, prefs_entity, collision>>

AdjustMax ==
    /\ pc = "edit"
    /\ edits < MaxEdits
    /\ edits' = edits + 1
    /\ \E f \in PosClosures, lock_size \in BOOLEAN :
          portal' = adjust_max(portal, f, lock_size, dimension)
    /\ UNCHANGED <<COUNTER, threads, cached_links, input, output,
                   call_stack, marks, world, repeated, destination_dimension, destination_region, candidates, pc,
                   actual, expected, dimension, prefs_entity, collision>>

AdjustWidth ==
    /\ pc = "edit"
    /\ edits < MaxEdits
    /\ edits' = edits + 1
    /\ \E f \in SizeClosures : portal' = adjust_width(portal, f)
    /\ UNCHANGED <<COUNTER, threads, cached_links, input, output,
                   call_stack, marks, world, repeated, destination_dimension, destination_region, candidates, pc,
                   actual, expected, dimension, prefs_entity, collision>>

\* A debug build: the overflow check aborts the call.
AdjustWidthPanics ==
    /\ pc = "edit"
    /\ adjust_width_overflows(portal)
    /\ pc' = "panicked"
    /\ UNCHANGED <<COUNTER, threads, cached_links, input, output,
                   call_stack, marks, world, repeated, destination_dimension, destination_region, candidates, portal,
                   actual, expected, dimension, prefs_entity, collision, edits>>

AdjustHeight ==
    /\ pc = "edit"
    /\ edits < MaxEdits
    /\ edits' = edits + 1
    /\ \E f \in SizeClosures : portal' = adjust_height(portal, f, dimension)
    /\ UNCHANGED <<COUNTER, threads, cached_links, input, output,
                   call_stack, marks, world, repeated, destination_dimension, destination_region, candidates, pc,
                   actual, expected, dimension, prefs_entity, collision>>

NextAdjust ==
    \/ AdjustAxis
    \/ AdjustAxisPanics
    \/ AdjustMin
    \/ AdjustMax
    \/ AdjustWidth
    \/ AdjustWidthPanics
    \/ AdjustHeight

SpecAdjust == InitAdjust /\ [][NextAdjust]_vars

----------------------------------------------------------------------------
(* One call of entity_collision_region, on a portal of every opening up to *)
(* MaxOpening and an entity of every size the entity editor allows in      *)
(* half-block steps up to one block more than the opening.                 *)

\* Widest and tallest portal opening drawn.
MaxOpening == 4

CollidePortals ==
    { random_portal(1, Overworld, -3, 64, 5, width, height, axis) :
        width \in MIN_WIDTH .. MaxOpening,
        height \in MIN_HEIGHT .. MaxOpening,
        axis \in {PortalAxisX, PortalAxisZ} }

Entities ==
    {PLAYER, ENDER_PEARL, ARROW, GHAST, ITEM}
    \cup { Entity(w * (FixedOne \div 2), h * (FixedOne \div 2), is_projectile) :
             w \in 0 .. 2 * (MaxOpening + 1),
             h \in 0 .. 2 * (MaxOpening + 1),
             is_projectile \in BOOLEAN }

InitCollide ==
    /\ dimension = Overworld
    /\ portal \in CollidePortals
    /\ prefs_entity \in Entities
    /\ collision = None
    /\ edits = 0
    /\ call_stack = <<>>
    /\ marks = NoMarks
    /\ world = NoWorld
    /\ repeated = NoResult
    /\ COUNTER = 1
    /\ threads = <<>>
    /\ cached_links = <<>>
    /\ input = None
    /\ output = None
    /\ pc = "collide"
    /\ destination_dimension = other(dimension)
    /\ destination_region = NoRegion
    /\ candidates = <<>>
    /\ actual = NoResult
    /\ expected = NoResult

CallCollision ==
    /\ pc = "collide"
    /\ collision' = entity_collision_region(portal, prefs_entity)
    /\ pc' = "collided"
    /\ UNCHANGED <<COUNTER, threads, cached_links, input, output,
                   call_stack, marks, world, repeated, destination_dimension, destination_region, candidates,
                   actual, expected, dimension, portal, prefs_entity, edits>>

NextCollide == CallCollision

SpecCollide == InitCollide /\ [][NextCollide]_vars

----------------------------------------------------------------------------
(* Portal::new_minimal at the camera position (main.rs, the buttons that   *)
(* add a portal): the camera may be at any height and as far out as i64    *)
(* goes.                                                                   *)

\* `pos.x + MIN_DW`, `pos.y + MIN_DH` or `pos.z + MIN_DW` leaves i64: a
\* debug build panics here.
new_minimal_overflows(pos, axis) ==
    \/ ~fits_i64(pos.x + (IF axis # PortalAxisX THEN 1 ELSE 0) * MIN_DW)
    \/ ~fits_i64(pos.y + MIN_DH)
    \/ ~fits_i64(pos.z + (IF axis # PortalAxisZ THEN 1 ELSE 0) * MIN_DW)

CreatePositions(dim) ==
    { BlockPos(x, y, z) :
        x \in {-7, 0, I64_MAX},
        y \in {y_min(dim) - 1, y_min(dim), y_min(dim) + 1, 64}
              \cup (y_max(dim) - MIN_HEIGHT - 1 .. y_max(dim) + 1),
        z \in {0, 5} }

InitCreate ==
    /\ dimension \in Dimensions
    /\ destination_dimension = other(dimension)
    /\ portal = None
    /\ pc = "create"
    /\ prefs_entity = PLAYER
    /\ destination_region = NoRegion
    /\ collision = None
    /\ candidates = <<>>
    /\ actual = NoResult
    /\ expected = NoResult
    /\ repeated = NoResult
    /\ COUNTER = 1
    /\ threads = <<>>
    /\ cached_links = <<>>
    /\ input = None
    /\ output = None
    /\ edits = 0
    /\ call_stack = <<>>
    /\ marks = NoMarks
    /\ world = NoWorld

CreatePortal ==
    /\ pc = "create"
    /\ \E pos \in CreatePositions(dimension), axis \in {PortalAxisX, PortalAxisZ} :
          portal' = new_minimal(1, pos, axis, dimension)
    /\ pc' = "created"
    /\ UNCHANGED <<COUNTER, threads, cached_links, input, output,
                   call_stack, marks, world, repeated, destination_dimension,
                   destination_region, candidates, actual, expected, dimension,
                   prefs_entity, collision, edits>>

\* A debug build: the overflow check aborts the call.
CreatePortalPanics ==
    /\ pc = "create"
    /\ \E pos \in CreatePositions(dimension), axis \in {PortalAxisX, PortalAxisZ} :
          new_minimal_overflows(pos, axis)
    /\ pc' = "panicked"
    /\ UNCHANGED <<COUNTER, threads, cached_links, input, output,
                   call_stack, marks, world, repeated, destination_dimension,
                   destination_region, candidates, actual, expected, dimension,
                   portal, prefs_entity, collision, edits>>

NextCreate == CreatePortal \/ CreatePortalPanics

SpecCreate == InitCreate /\ [][NextCreate]_vars

----------------------------------------------------------------------------
(* Portal::destination_region, as calculate_portal_link_result (main.rs)   *)
(* and test_portal_linking call it: on a portal of `dimension`, for the    *)
(* entity that travels, towards the other dimension.  A portal may stand   *)
(* anywhere the editor lets its coordinates be typed, up to where whole    *)
(* numbers stop being doubles.                                             *)

\* Where the portals stand along x.
FarCoordinates ==
    { -3, 2 ^ (FloatBits - 1), 2 ^ FloatBits - 1, 2 ^ FloatBits,
      -(2 ^ FloatBits) - 1, I64_MAX - MaxOpening }

DestinationPortals(dim) ==
    { random_portal(1, dim, x, 64, 5, width, height, axis) :
        x \in FarCoordinates,
        width \in MIN_WIDTH .. MaxOpening,
        height \in MIN_HEIGHT .. MaxOpening,
        axis \in {PortalAxisX, PortalAxisZ} }

InitDestination ==
    /\ dimension \in Dimensions
    /\ destination_dimension = other(dimension)
    /\ portal \in DestinationPortals(dimension)
    /\ prefs_entity \in {PLAYER, ENDER_PEARL, ARROW, GHAST, ITEM}
    /\ destination_region = NoRegion
    /\ collision = None
    /\ pc = "depart"
    /\ candidates = <<>>
    /\ actual = NoResult
    /\ expected = NoResult
    /\ repeated = NoResult
    /\ COUNTER = 1
    /\ threads = <<>>
    /\ cached_links = <<>>
    /\ input = None
    /\ output = None
    /\ edits = 0
    /\ call_stack = <<>>
    /\ marks = NoMarks
    /\ world = NoWorld

\* portal.destination_region(entity, destination_dimension): None leaves
\* the caller at "wont_fit", Some(region) takes it to "arrived".
CallDestination ==
    /\ pc = "depart"
    /\ collision' = entity_collision_region(portal, prefs_entity)
    /\ LET region == portal_destination_region(portal, prefs_entity,
                                               destination_dimension)
       IN /\ destination_region' = IF region.some THEN region.val ELSE NoRegion
          /\ pc' = IF region.some THEN "arrived" ELSE "wont_fit"
    /\ UNCHANGED <<COUNTER, threads, cached_links, input, output,
                   call_stack, marks, world, repeated, destination_dimension,
                   candidates, actual, expected, dimension, portal, prefs_entity,
                   edits>>

NextDestination == CallDestination

SpecDestination == InitDestination /\ [][NextDestination]_vars

----------------------------------------------------------------------------
(* id.rs : PortalId::new called from several threads. fetch_add is one     *)
(* atomic step; the assertion that follows it is a second step of the      *)
(* same thread, so other threads may run in between. A failed assertion    *)
(* unwinds the thread that made it; the other threads go on.               *)

\* Width of the counter: u64 is modelled IdBits wide.
IdBits == 3

wrapping_u64(v) == v % (2 ^ IdBits)

\* Threads that call PortalId::new.
NumThreads == 2

Threads == 1 .. NumThreads

\* Calls made in all, enough for the counter to come round.
MaxCalls == 2 ^ IdBits + 2

RECURSIVE CallsMade(_)
CallsMade(ts) ==
    IF ts = {} THEN 0
    ELSE LET t == CHOOSE u \in ts : TRUE
         IN Len(threads[t].ids)
              + (IF threads[t].pc = "idle" THEN 0 ELSE 1)
              + CallsMade(ts \ {t})

InitIds ==
    /\ COUNTER = 1
    /\ threads = [t \in Threads |-> [pc |-> "idle", id |-> 0, ids |-> <<>>]]
    /\ cached_links = <<>>
    /\ input = None
    /\ output = None
    /\ world = NoWorld
    /\ dimension = Overworld
    /\ portal = None
    /\ destination_dimension = Nether
    /\ destination_region = NoRegion
    /\ candidates = <<>>
    /\ pc = "ids"
    /\ actual = NoResult
    /\ expected = NoResult
    /\ repeated = NoResult
    /\ prefs_entity = PLAYER
    /\ collision = None
    /\ edits = 0
    /\ call_stack = <<>>
    /\ marks = NoMarks

\* let id = COUNTER.fetch_add(1, Ordering::Relaxed);
FetchAdd(t) ==
    /\ threads[t].pc = "idle"
    /\ CallsMade(Threads) < MaxCalls
    /\ threads' = [threads EXCEPT ![t].pc = "fetched", ![t].id = COUNTER]
    /\ COUNTER' = wrapping_u64(COUNTER + 1)
    /\ UNCHANGED <<cached_links, input, output, call_stack, marks, world, repeated,
                   destination_dimension, destination_region, candidates, pc,
                   actual, expected, dimension, portal, prefs_entity, collision,
                   edits>>

\* assert_ne!(id, 0, "ID overflow") passes; Self(id) is returned.
ReturnId(t) ==
    /\ threads[t].pc = "fetched"
    /\ threads[t].id # 0
    /\ threads' = [threads EXCEPT ![t].pc = "idle",
                                  ![t].ids = Append(@, threads[t].id)]
    /\ UNCHANGED <<COUNTER, cached_links, input, output, call_stack, marks, world,
                   repeated, destination_dimension, destination_region, candidates,
                   pc, actual, expected, dimension, portal, prefs_entity, collision,
                   edits>>

\* assert_ne!(id, 0, "ID overflow") fails: the thread panics.
IdOverflowPanics(t) ==
    /\ threads[t].pc = "fetched"
    /\ threads[t].id = 0
    /\ threads' = [threads EXCEPT ![t].pc = "panicked"]
    /\ UNCHANGED <<COUNTER, cached_links, input, output, call_stack, marks, world,
                   repeated, destination_dimension, destination_region, candidates,
                   pc, actual, expected, dimension, portal, prefs_entity, collision,
                   edits>>

NextIds ==
    \/ \E t \in Threads : FetchAdd(t)
    \/ \E t \in Threads : ReturnId(t)
    \/ \E t \in Threads : IdOverflowPanics(t)

SpecIds == InitIds /\ [][NextIds]_vars

----------------------------------------------------------------------------
(* portal.rs : the three search range tests called on their own, on a      *)
(* portal, a region and a dimension.                                       *)

\* Portals at and around the search range r of the region's first layer,
\* along x and along z, low and high.
RangePortals(dim) ==
    LET r == portal_search_range(dim)
    IN { new_test(1, BlockPos(px, py, pz), BlockPos(px + w, py + 2, pz)) :
           px \in {-r - 2, -r - 1, 1, r, r + 1, r + 2},
           w \in {0, 1},
           pz \in {-r - 1, 0, r + 1},
           py \in {64, 200} }

\* A portal and a region near the largest coordinate, less than r apart.
FarRangeInputs ==
    { [portal |-> new_test(1, BlockPos(I64_MAX - 100, 64, 0),
                              BlockPos(I64_MAX - 99, 66, 0)),
       region |-> BlockRegion(BlockPos(I64_MAX - 200, 64, 0),
                              BlockPos(I64_MAX - 200 + dx, 64, 0)),
       dimension |-> dim] : dx \in 0 .. 1, dim \in Dimensions }

RangeInputs ==
    { [portal |-> p, region |-> region, dimension |-> dim] :
        dim \in Dimensions, region \in Regions,
        p \in RangePortals(Overworld) \cup RangePortals(Nether) }
    \cup FarRangeInputs

InitRange ==
    /\ input \in RangeInputs
    /\ output = None
    /\ pc = "range"
    /\ destination_dimension = Nether
    /\ destination_region = NoRegion
    /\ candidates = <<>>
    /\ actual = NoResult
    /\ expected = NoResult
    /\ dimension = Overworld
    /\ portal = None
    /\ prefs_entity = PLAYER
    /\ collision = None
    /\ edits = 0
    /\ world = NoWorld
    /\ repeated = NoResult
    /\ call_stack = <<>>
    /\ marks = NoMarks
    /\ COUNTER = 1
    /\ threads = <<>>
    /\ cached_links = <<>>

CallRangeTests ==
    /\ pc = "range"
    /\ output' =
          [ in_range_of_region |->
                is_in_range_of_region(input.portal, input.region, input.dimension),
            always_in_range_of_region |->
                is_always_in_range_of_region(input.portal, input.region,
                                             input.dimension),
            in_range_of_point |->
                [ pos \in RegionBlocks(input.region) |->
                    is_in_range_of_point(input.portal, pos, input.dimension) ] ]
    /\ pc' = "ranged"
    /\ UNCHANGED <<destination_dimension, destination_region, candidates,
                   actual, expected, dimension, portal, prefs_entity,
                   collision, edits, world, repeated, call_stack, marks,
                   COUNTER, threads, cached_links, input>>

\* A debug build: one of the three tests overflows and aborts the calls.
CallRangeTestsPanics ==
    /\ pc = "range"
    /\ \/ is_in_range_of_region_overflows(input.portal, input.region,
                                          input.dimension)
       \/ is_always_in_range_of_region_overflows(input.portal, input.region,
                                                 input.dimension)
       \/ \E pos \in RegionBlocks(input.region) :
             is_in_range_of_point_overflows(input.portal, pos, input.dimension)
    /\ pc' = "panicked"
    /\ UNCHANGED <<destination_dimension, destination_region, candidates,
                   actual, expected, dimension, portal, prefs_entity,
                   collision, edits, world, repeated, call_stack, marks,
                   COUNTER, threads, cached_links, input, output>>

NextRange == CallRangeTests \/ CallRangeTestsPanics

SpecRange == InitRange /\ [][NextRange]_vars

----------------------------------------------------------------------------
(* region.rs : the three squared distances called on their own, on two     *)
(* regions and a block.  The differences are i64 wide; their squares and   *)
(* the sum of the squares are computed without a width.                    *)

\* Regions beside, above, below, across and inside the regions drawn for
\* the resolver.
OtherRegions ==
    { BlockRegion(BlockPos(bx, by, bz), BlockPos(bx + ex, by + ey, bz + ez)) :
        bx \in {-3, 1, 4}, by \in {62, 65}, bz \in {-2, 1},
        ex \in 0 .. 1, ey \in 0 .. 1, ez \in 0 .. 1 }

\* Two regions at the two ends of the x axis.
FarDistanceInputs ==
    { [self |-> BlockRegion(BlockPos(I64_MIN, 64, 0), BlockPos(I64_MIN + dx, 64, 0)),
       other |-> BlockRegion(BlockPos(I64_MAX - 1, 64, 0), BlockPos(I64_MAX, 64, 0)),
       pos |-> BlockPos(I64_MAX, 64, 0)] : dx \in 0 .. 1 }

DistanceInputs ==
    { [self |-> a, other |-> b, pos |-> b.min] : a \in Regions, b \in OtherRegions }
    \cup FarDistanceInputs

InitDistance ==
    /\ input \in DistanceInputs
    /\ output = None
    /\ pc = "distance"
    /\ destination_dimension = Nether
    /\ destination_region = NoRegion
    /\ candidates = <<>>
    /\ actual = NoResult
    /\ expected = NoResult
    /\ dimension = Overworld
    /\ portal = None
    /\ prefs_entity = PLAYER
    /\ collision = None
    /\ edits = 0
    /\ world = NoWorld
    /\ repeated = NoResult
    /\ call_stack = <<>>
    /\ marks = NoMarks
    /\ COUNTER = 1
    /\ threads = <<>>
    /\ cached_links = <<>>

CallDistances ==
    /\ pc = "distance"
    /\ output' =
          [ min_sq |-> min_euclidean_distance_sq_to(input.self, input.other),
            max_sq |-> max_euclidean_distance_sq_to(input.self, input.other),
            min_sq_to_point |->
                min_euclidean_distance_sq_to_point(input.self, input.pos) ]
    /\ pc' = "measured"
    /\ UNCHANGED <<destination_dimension, destination_region, candidates,
                   actual, expected, dimension, portal, prefs_entity,
                   collision, edits, world, repeated, call_stack, marks,
                   COUNTER, threads, cached_links, input>>

\* A debug build: a difference overflows and aborts the calls.
CallDistancesPanics ==
    /\ pc = "distance"
    /\ \E a \in {AxisX, AxisY, AxisZ} :
          \/ min_range_distance_to_overflows(input.self.min[a], input.self.max[a],
                                             input.other.min[a], input.other.max[a])
          \/ max_range_distance_to_overflows(input.self.min[a], input.self.max[a],
                                             input.other.min[a], input.other.max[a])
          \/ max_range_distance_to_overflows(input.pos[a], input.pos[a],
                                             input.self.min[a], input.self.max[a])
    /\ pc' = "panicked"
    /\ UNCHANGED <<destination_dimension, destination_region, candidates,
                   actual, expected, dimension, portal, prefs_entity,
                   collision, edits, world, repeated, call_stack, marks,
                   COUNTER, threads, cached_links, input, output>>

NextDistance == CallDistances \/ CallDistancesPanics

SpecDistance == InitDistance /\ [][NextDistance]_vars

----------------------------------------------------------------------------
(* world.rs : minima_by_opt_key called on its own, as test_minima_by_opt_key *)
(* does: on a list of items that carry their key.                          *)

\* Longest list of items drawn.
MaxKeys == 4

\* The keys drawn: None and three numbers.
Keys == {None, Some(1), Some(2), Some(4)}

RECURSIVE KeyLists(_)
KeyLists(n) ==
    IF n = 0 THEN { <<>> }
    ELSE KeyLists(n - 1)
         \cup { Append(ks, k) : ks \in { l \in KeyLists(n - 1) : Len(l) = n - 1 },
                                k \in Keys }

InitMinima ==
    /\ input \in { [items |-> [i \in 1 .. Len(ks) |-> i], keys |-> ks] :
                      ks \in KeyLists(MaxKeys) }
    /\ output = None
    /\ pc = "minima"
    /\ destination_dimension = Nether
    /\ destination_region = NoRegion
    /\ candidates = <<>>
    /\ actual = NoResult
    /\ expected = NoResult
    /\ dimension = Overworld
    /\ portal = None
    /\ prefs_entity = PLAYER
    /\ collision = None
    /\ edits = 0
    /\ world = NoWorld
    /\ repeated = NoResult
    /\ call_stack = <<>>
    /\ marks = NoMarks
    /\ COUNTER = 1
    /\ threads = <<>>
    /\ cached_links = <<>>

CallMinima ==
    /\ pc = "minima"
    /\ output' = minima_by_opt_key(input.items, input.keys)
    /\ pc' = "selected"
    /\ UNCHANGED <<destination_dimension, destination_region, candidates,
                   actual, expected, dimension, portal, prefs_entity,
                   collision, edits, world, repeated, call_stack, marks,
                   COUNTER, threads, cached_links, input>>

NextMinima == CallMinima

SpecMinima == InitMinima /\ [][NextMinima]_vars

----------------------------------------------------------------------------
(* region.rs : split_excluding_corners called on its own, as               *)
(* test_split_excluding_corners does: on regions of every extent along     *)
(* the axis that is split.                                                 *)

\* Largest max - min along the split axis that is drawn.
MaxSpan == 7

\* A region from `low` to `low + n` along `axis`, as wide as the test's
\* block on the other axes.
SpanRegion(axis, low, n) ==
    [min |-> [BlockPos(1, 2, 3) EXCEPT ![axis] = low],
     max |-> [BlockPos(10, 20, 30) EXCEPT ![axis] = low + n]]

SplitInputs ==
    { [region |-> SpanRegion(axis, low, n), axis |-> axis] :
        axis \in {AxisX, AxisY, AxisZ}, low \in {-2, 0, 5}, n \in 0 .. MaxSpan }
    \cup { [region |-> SpanRegion(axis, I64_MAX - n, n), axis |-> axis] :
             axis \in {AxisX, AxisZ}, n \in 0 .. 1 }
    \cup { [region |-> SpanRegion(axis, I64_MIN, n), axis |-> axis] :
             axis \in {AxisX, AxisZ}, n \in 0 .. 1 }

InitSplit ==
    /\ input \in SplitInputs
    /\ output = None
    /\ pc = "split"
    /\ destination_dimension = Nether
    /\ destination_region = NoRegion
    /\ candidates = <<>>
    /\ actual = NoResult
    /\ expected = NoResult
    /\ dimension = Overworld
    /\ portal = None
    /\ prefs_entity = PLAYER
    /\ collision = None
    /\ edits = 0
    /\ world = NoWorld
    /\ repeated = NoResult
    /\ call_stack = <<>>
    /\ marks = NoMarks
    /\ COUNTER = 1
    /\ threads = <<>>
    /\ cached_links = <<>>

CallSplit ==
    /\ pc = "split"
    /\ output' = split_excluding_corners(input.region, input.axis)
    /\ pc' = "halved"
    /\ UNCHANGED <<destination_dimension, destination_region, candidates,
                   actual, expected, dimension, portal, prefs_entity,
                   collision, edits, world, repeated, call_stack, marks,
                   COUNTER, threads, cached_links, input>>

\* A debug build: the overflow check aborts the call.
CallSplitPanics ==
    /\ pc = "split"
    /\ split_excluding_corners_overflows(input.region, input.axis)
    /\ pc' = "panicked"
    /\ UNCHANGED <<destination_dimension, destination_region, candidates,
                   actual, expected, dimension, portal, prefs_entity,
                   collision, edits, world, repeated, call_stack, marks,
                   COUNTER, threads, cached_links, input, output>>

NextSplit == CallSplit \/ CallSplitPanics

SpecSplit == InitSplit /\ [][NextSplit]_vars

----------------------------------------------------------------------------
(* main.rs : recalculate_portal_links on a world of valid portals.         *)
(* cached_links is a function from the ids that are keys of the HashMap    *)
(* to [outgoing, incoming]; `output` counts the lines log::error! wrote.   *)

EntityWontFit == [kind |-> "EntityWontFit"]

Portals(ids, new_portal) == [kind |-> "Portals", ids |-> ids, new_portal |-> new_portal]

\* PortalLinkResult::Portals { ids: ....map(|p| p.id).collect(), new_portal }
PortalsOf(destinations, index) ==
    Portals([i \in DOMAIN destinations.existing_portals |->
                index[destinations.existing_portals[i]].id],
            destinations.new_portal)

calculate_portal_link_result(w, entity, p, portal_dimension) ==
    LET dest == other(portal_dimension)
        region == portal_destination_region(p, entity, dest)
    IN IF ~region.some THEN EntityWontFit
       ELSE PortalsOf(portal_destinations(dest, region.val, WorldIndex(w, dest)),
                      WorldIndex(w, dest))

\* The first loop: the map after the first k inserts, Overworld first; an
\* insert under an id that is already a key replaces its value.
RECURSIVE InsertLinks(_, _, _)
InsertLinks(w, entity, k) ==
    LET overworld == WorldIndex(w, Overworld)
        nether == WorldIndex(w, Nether)
    IN IF k = 0 THEN <<>>
       ELSE IF k <= Len(overworld)
       THEN (overworld[k].id :>
                calculate_portal_link_result(w, entity, overworld[k], Overworld))
            @@ InsertLinks(w, entity, k - 1)
       ELSE (nether[k - Len(overworld)].id :>
                calculate_portal_link_result(w, entity,
                    nether[k - Len(overworld)], Nether))
            @@ InsertLinks(w, entity, k - 1)

OutgoingLinks(w, entity) ==
    InsertLinks(w, entity, Len(WorldIndex(w, Overworld)) + Len(WorldIndex(w, Nether)))

\* Faulty variant: only the first portal that links to `id` is pushed.
IncomingLinks_FirstOnly(outgoing, order, id) ==
    LET from == SelectSeq(order, LAMBDA a :
                    /\ outgoing[a].kind = "Portals"
                    /\ id \in SeqRange(outgoing[a].ids))
    IN IF from = <<>> THEN <<>> ELSE <<Head(from)>>

\* The second loop, seen from one key: the ids pushed onto its incoming
\* list, in the order in which the clone of the map is iterated.
IncomingLinks(outgoing, order, id) ==
    SelectSeq(order, LAMBDA a :
        /\ outgoing[a].kind = "Portals"
        /\ id \in SeqRange(outgoing[a].ids))

\* The destination ids for which get_mut returns None.
MissingDestinations(outgoing) ==
    { <<a, k>> \in (DOMAIN outgoing) \X (1 .. 2 * MaxPortals) :
        /\ outgoing[a].kind = "Portals"
        /\ k \in DOMAIN outgoing[a].ids
        /\ outgoing[a].ids[k] \notin DOMAIN outgoing }

RECURSIVE Ascending(_)
Ascending(S) ==
    IF S = {} THEN <<>>
    ELSE LET least == CHOOSE d \in S : \A e \in S : d <= e
         IN <<least>> \o Ascending(S \ {least})

Reversed(s) == [i \in DOMAIN s |-> s[Len(s) + 1 - i]]

\* The iteration order of a HashMap is unspecified: two orders are drawn.
IterationOrders(S) == {Ascending(S), Reversed(Ascending(S))}

InitLinks ==
    /\ world \in Worlds
    /\ prefs_entity \in {PLAYER, GHAST}
    /\ cached_links = <<>>
    /\ output = None
    /\ pc = "stale"
    /\ destination_dimension = Nether
    /\ destination_region = NoRegion
    /\ candidates = <<>>
    /\ actual = NoResult
    /\ expected = NoResult
    /\ dimension = Overworld
    /\ portal = None
    /\ collision = None
    /\ edits = 0
    /\ repeated = NoResult
    /\ call_stack = <<>>
    /\ marks = NoMarks
    /\ COUNTER = 1
    /\ threads = <<>>
    /\ input = None

RecalculatePortalLinks ==
    /\ pc = "stale"
    /\ \E outgoing \in {OutgoingLinks(world, prefs_entity)} :
          \E order \in IterationOrders(DOMAIN outgoing) :
             /\ cached_links' =
                   [id \in DOMAIN outgoing |->
                      [outgoing |-> outgoing[id],
                       incoming |-> IncomingLinks(outgoing, order, id)]]
             /\ output' = Cardinality(MissingDestinations(outgoing))
    /\ pc' = "linked"
    /\ UNCHANGED <<destination_dimension, destination_region, candidates,
                   actual, expected, dimension, portal, prefs_entity,
                   collision, edits, world, repeated, call_stack, marks,
                   COUNTER, threads, input>>

NextLinks == RecalculatePortalLinks

SpecLinks == InitLinks /\ [][NextLinks]_vars

----------------------------------------------------------------------------
(* The claims.                                                             *)

\* The identities of the portals a result names.
Ids(cands, result) ==
    { cands[result.existing_portals[i]].id : i \in DOMAIN result.existing_portals }

(* C1: on every candidate list and every valid region, portal_destinations *)
(* returns the same set of portals and the same new_portal flag as         *)
(* portal_destinations_naive.                                              *)
C1_EqualsNaive ==
    pc = "done" =>
        /\ Ids(candidates, actual) = Ids(candidates, expected)
        /\ actual.new_portal = expected.new_portal

\* itertools sorted(), on a sequence of ids
RECURSIVE sorted(_)
sorted(s) ==
    IF s = <<>> THEN <<>>
    ELSE LET m == CHOOSE i \in DOMAIN s : \A j \in DOMAIN s : s[i] <= s[j]
         IN <<s[m]>> \o sorted([k \in 1 .. Len(s) - 1 |-> IF k < m THEN s[k] ELSE s[k + 1]])

\* existing_portals.iter().map(|p| p.id).sorted().collect_vec()
SortedIds(cands, result) ==
    sorted([i \in DOMAIN result.existing_portals |->
                cands[result.existing_portals[i]].id])

(* C2: in a world of valid portals (new_minimal, adjust_width,             *)
(* adjust_height), with the region a portal of one dimension sends a       *)
(* player to in the other, portal_destinations and                         *)
(* portal_destinations_naive return the same sorted list of portal ids and *)
(* the same new_portal flag.                                               *)
C2_LinkEqualsNaive ==
    ( /\ pc = "done"
      /\ Some(destination_region)
            = portal_destination_region(portal, PLAYER, destination_dimension) )
    => /\ SortedIds(candidates, actual) = SortedIds(candidates, expected)
       /\ actual.new_portal = expected.new_portal

----------------------------------------------------------------------------
(* What the game does at one block: the candidates in search range of the  *)
(* block, and among them those at the least squared distance.              *)

InRangeAt(dim, cands, pt) ==
    { i \in 1 .. Len(cands) : is_in_range_of_point(cands[i], pt, dim) }

NearestAt(dim, cands, pt) ==
    { i \in InRangeAt(dim, cands, pt) :
        \A j \in InRangeAt(dim, cands, pt) :
            min_euclidean_distance_sq_to_point(cands[i].region, pt)
                <= min_euclidean_distance_sq_to_point(cands[j].region, pt) }

Existing(result) == SeqRange(result.existing_portals)

----------------------------------------------------------------------------
(* The size of a portal's opening, in blocks, and what a valid portal is.  *)

OpeningWidth(p) == p.region.max[width_axis(p)] - p.region.min[width_axis(p)] + 1

OpeningHeight(p) == p.region.max.y - p.region.min.y + 1

IsValidPortal(p, dim) ==
    /\ OpeningWidth(p) >= 2
    /\ OpeningHeight(p) >= 3
    /\ p.region.min.y >= y_min(dim) + 1
    /\ p.region.max.y <= y_max(dim) - 1

(* C4: starting from a valid portal (width >= 2, height >= 3, min.y >=     *)
(* y_min + 1, max.y <= y_max - 1), after any sequence of adjust_min,       *)
(* adjust_max (lock_size true or false), adjust_width, adjust_height and   *)
(* adjust_axis whose closures write arbitrary values, the portal is still  *)
(* valid.                                                                  *)
C4_StaysValid ==
    pc \in {"edit", "panicked"} => IsValidPortal(portal, dimension)

----------------------------------------------------------------------------
(* C6: with an empty candidate list portal_destinations returns no         *)
(* existing portal and new_portal = true.                                  *)
C6_EmptyList ==
    (pc = "done" /\ candidates = <<>>) =>
        (actual.existing_portals = <<>> /\ actual.new_portal)

C6_Witness ==
    /\ pc = "done"
    /\ candidates = <<>>
    /\ destination_region.max.x > destination_region.min.x
    /\ destination_region.max.z > destination_region.min.z

IsSingleBlock(region) == region.min = region.max

RemoveAt(cands, i) ==
    [k \in 1 .. Len(cands) - 1 |-> IF k < i THEN cands[k] ELSE cands[k + 1]]

\* Candidate i is nearest (even tied) at no block of the region.
NeverNearest(dim, region, cands, i) ==
    \A pt \in RegionBlocks(region) : i \notin NearestAt(dim, cands, pt)

(* C9: removing a candidate that is nearest at no block of the region      *)
(* leaves the result of portal_destinations unchanged: the same portals    *)
(* and the same new_portal flag.                                           *)
C9_RemoveNonWinner ==
    pc = "done" =>
        \A i \in 1 .. Len(candidates) :
            NeverNearest(destination_dimension, destination_region, candidates, i) =>
                LET rest == RemoveAt(candidates, i)
                    after == portal_destinations(destination_dimension,
                                                 destination_region, rest)
                IN /\ Ids(rest, after) = Ids(candidates, actual)
                   /\ after.new_portal = actual.new_portal

Orders(n) ==
    { f \in [1 .. n -> 1 .. n] : \A a, b \in 1 .. n : f[a] = f[b] => a = b }

Permuted(cands, f) == [k \in 1 .. Len(cands) |-> cands[f[k]]]

----------------------------------------------------------------------------
----------------------------------------------------------------------------
(* C12: every portal in the existing_portals returned by                   *)
(* portal_destinations is an element of the queried WorldPortals' list for *)
(* destination_dimension, never a portal of the other dimension's list or  *)
(* an identity absent from the list, and each appears at most once.        *)
C12_FromDestinationList ==
    pc \in {"queried", "again"} =>
        LET list == IF destination_dimension = Overworld
                    THEN world.overworld ELSE world.nether
            other_list == IF destination_dimension = Overworld
                          THEN world.nether ELSE world.overworld
            returned == [k \in DOMAIN actual.existing_portals |->
                            candidates[actual.existing_portals[k]]]
        IN /\ \A k \in DOMAIN returned :
                 /\ \E i \in DOMAIN list : list[i] = returned[k]
                 /\ \A j \in DOMAIN other_list : other_list[j].id # returned[k].id
           /\ \A k1, k2 \in DOMAIN returned :
                 returned[k1].id = returned[k2].id => k1 = k2

\* Several portals returned from a world with portals in both dimensions.
C12_Witness ==
    /\ pc = "queried"
    /\ Len(actual.existing_portals) >= 2
    /\ world.overworld # <<>>
    /\ world.nether # <<>>

----------------------------------------------------------------------------
\* The number of blocks of a region with min <= max on each axis.
BlockCount(r) ==
    (r.max.x - r.min.x + 1) * (r.max.y - r.min.y + 1) * (r.max.z - r.min.z + 1)

(* C13: for every candidate list and every region with min <= max on each  *)
(* axis, portal_destinations does not panic, and every recursive call of   *)
(* mark_reachable_portals is made on a sub-cuboid of its caller's region   *)
(* that has min <= max on each axis and strictly fewer blocks (so the      *)
(* recursion terminates).                                                  *)
C13_TotalAndShrinking ==
    /\ pc # "panicked"
    /\ \A k \in DOMAIN call_stack :
          (call_stack[k].kind = "call" /\ call_stack[k].caller.some) =>
              LET sub == call_stack[k].region
                  outer == call_stack[k].caller.val
              IN /\ \A a \in {AxisX, AxisY, AxisZ} :
                       /\ sub.min[a] <= sub.max[a]
                       /\ outer.min[a] <= sub.min[a]
                       /\ sub.max[a] <= outer.max[a]
                 /\ BlockCount(sub) < BlockCount(outer)

----------------------------------------------------------------------------
(* C14: for every portal at least 2 wide and 3 high and either destination *)
(* dimension, destination_region(Entity::PLAYER, destination_dimension)    *)
(* returns Some region, and every region destination_region returns, for   *)
(* any entity, has min <= max on each axis.                                *)
C14_PlayerArrivesInValidRegion ==
    /\ ( /\ pc \in {"arrived", "wont_fit"}
         /\ prefs_entity = PLAYER
         /\ OpeningWidth(portal) >= 2
         /\ OpeningHeight(portal) >= 3 )
       => pc = "arrived"
    /\ pc = "arrived" =>
          \A a \in {AxisX, AxisY, AxisZ} :
              destination_region.min[a] <= destination_region.max[a]

----------------------------------------------------------------------------
(* C15: for a portal with block region [min, max], entity_collision_region *)
(* of a fitting non-projectile entity is the cuboid spanning               *)
(* [min_w + width/2, max_w + 1 - width/2] on the width axis,               *)
(* [min_d - width/2, max_d + 1 + width/2] on the depth axis and            *)
(* [min_y, max_y + 1 - height] vertically; for a projectile it spans       *)
(* [min - width/2, max + 1 + width/2] on both horizontal axes and          *)
(* [min_y - height, max_y + 1] vertically.                                 *)
C15_CollisionCuboid ==
    pc \in {"collided", "arrived", "wont_fit"} =>
        LET w == width_axis(portal)
            d == depth_axis(portal)
            lo == [a \in {AxisX, AxisY, AxisZ} |-> portal.region.min[a] * FixedOne]
            hi == [a \in {AxisX, AxisY, AxisZ} |->
                      (portal.region.max[a] + 1) * FixedOne]
            half == prefs_entity.width \div 2
            fits == /\ prefs_entity.width <= OpeningWidth(portal) * FixedOne
                    /\ prefs_entity.height <= OpeningHeight(portal) * FixedOne
        IN IF prefs_entity.is_projectile
           THEN collision =
                  Some([min |-> [a \in {AxisX, AxisY, AxisZ} |->
                                    IF a = AxisY THEN lo[a] - prefs_entity.height
                                    ELSE lo[a] - half],
                        max |-> [a \in {AxisX, AxisY, AxisZ} |->
                                    IF a = AxisY THEN hi[a] ELSE hi[a] + half]])
           ELSE fits =>
                collision =
                  Some([min |-> [a \in {AxisX, AxisY, AxisZ} |->
                                    IF a = w THEN lo[a] + half
                                    ELSE IF a = d THEN lo[a] - half
                                    ELSE lo[a]],
                        max |-> [a \in {AxisX, AxisY, AxisZ} |->
                                    IF a = w THEN hi[a] - half
                                    ELSE IF a = d THEN hi[a] + half
                                    ELSE hi[a] - prefs_entity.height]])

----------------------------------------------------------------------------
(* C16: for every position, axis and dimension, Portal::new_minimal        *)
(* returns a valid portal of the smallest possible size: exactly 2 blocks  *)
(* wide along its width axis, exactly 3 blocks high, one block thick along *)
(* its depth axis, and within the dimension's legal vertical placement     *)
(* range (min.y >= y_min + 1, max.y <= y_max - 1).                         *)
C16_MinimalPortal ==
    /\ pc # "panicked"
    /\ pc = "created" =>
          /\ OpeningWidth(portal) = MIN_WIDTH
          /\ OpeningHeight(portal) = MIN_HEIGHT
          /\ portal.region.max[depth_axis(portal)]
                = portal.region.min[depth_axis(portal)]
          /\ portal.region.min.y >= y_min(dimension) + 1
          /\ portal.region.max.y <= y_max(dimension) - 1

----------------------------------------------------------------------------
\* max - min of a portal's region on each axis.
Extent(p) == [a \in {AxisX, AxisY, AxisZ} |-> p.region.max[a] - p.region.min[a]]

(* C17: adjust_min and adjust_max called with lock_size = true preserve    *)
(* the portal's size: max - min is the same before and after the call on   *)
(* the width, height and depth axes, whatever the closure writes.          *)
C17_LockedSizeKept ==
    [][ \A f \in PosClosures :
            ( \/ portal' = adjust_min(portal, f, TRUE, dimension)
              \/ portal' = adjust_max(portal, f, TRUE, dimension) )
            => Extent(portal') = Extent(portal) ]_vars

----------------------------------------------------------------------------
\* The least max - min of a valid portal on an axis: 1 on the width axis,
\* 2 on Y, 0 on the depth axis.
MinExtent(p, a) ==
    IF a = width_axis(p) THEN MIN_DW ELSE IF a = AxisY THEN MIN_DH ELSE 0

(* C18: adjust_min called with lock_size = false leaves max unchanged on   *)
(* every axis where max is already at least the new min plus the minimum   *)
(* extent (1 on the width axis, 2 on Y, 0 on the depth axis) and otherwise *)
(* sets max to exactly new min plus that minimum extent; symmetrically     *)
(* adjust_max with lock_size = false moves min only on axes where it is    *)
(* needed and only to max minus the minimum extent.                        *)
C18_UnlockedMovesLeast ==
    [][ \A f \in PosClosures, a \in {AxisX, AxisY, AxisZ} :
          /\ portal' = adjust_min(portal, f, FALSE, dimension) =>
                portal'.region.max[a] =
                    IF portal.region.max[a]
                          >= portal'.region.min[a] + MinExtent(portal, a)
                    THEN portal.region.max[a]
                    ELSE portal'.region.min[a] + MinExtent(portal, a)
          /\ portal' = adjust_max(portal, f, FALSE, dimension) =>
                portal'.region.min[a] =
                    IF portal.region.min[a]
                          <= portal'.region.max[a] - MinExtent(portal, a)
                    THEN portal.region.min[a]
                    ELSE portal'.region.max[a] - MinExtent(portal, a) ]_vars

(* C19: adjust_axis preserves the numeric width: the extent of the region  *)
(* along the width axis after the call equals the extent along the width   *)
(* axis before the call, whether or not the closure changed the axis;      *)
(* region.min is unchanged and after the call the portal is exactly one    *)
(* block thick along its depth axis (max[d] = min[d]).                     *)
C19_AxisKeepsWidth ==
    [][ \A f \in AxisClosures :
          portal' = adjust_axis(portal, f) =>
            /\ Extent(portal')[width_axis(portal')]
                  = Extent(portal)[width_axis(portal)]
            /\ portal'.region.min = portal.region.min
            /\ portal'.region.max[depth_axis(portal')]
                  = portal'.region.min[depth_axis(portal')] ]_vars

\* The height adjust_height aims at: what the closure leaves, at least
\* MIN_HEIGHT.
HeightAsked(p, f) ==
    Max2(WriteValue(p.region.max.y - p.region.min.y + 1, f), MIN_HEIGHT)

(* C20: adjust_width never changes region.min and changes no coordinate    *)
(* other than region.max on the width axis; adjust_height changes          *)
(* region.min.y only when min.y + height - 1 would exceed                  *)
(* dimension.y_max() - 1, and never changes any x or z coordinate.         *)
C20_SizeEditsFrame ==
    [][ \A f \in SizeClosures :
          /\ portal' = adjust_width(portal, f) =>
                /\ portal'.region.min = portal.region.min
                /\ \A a \in {AxisX, AxisY, AxisZ} \ {width_axis(portal)} :
                      portal'.region.max[a] = portal.region.max[a]
          /\ portal' = adjust_height(portal, f, dimension) =>
                /\ portal'.region.min.y # portal.region.min.y =>
                      portal.region.min.y + HeightAsked(portal, f) - 1
                          > y_max(dimension) - 1
                /\ \A a \in {AxisX, AxisZ} :
                      /\ portal'.region.min[a] = portal.region.min[a]
                      /\ portal'.region.max[a] = portal.region.max[a] ]_vars

\* One edit made: adjust_height asked for i64::MAX blocks, and min.y moved
\* down to make room below y_max - 1.
C20_Witness ==
    /\ edits = 1
    /\ \E axis \in {PortalAxisX, PortalAxisZ} :
          LET p == new_minimal(1, BlockPos(0, 64, 0), axis, dimension)
          IN /\ portal = adjust_height(p, Some(I64_MAX), dimension)
             /\ portal.region.min.y < p.region.min.y
             /\ portal.region.max.y = y_max(dimension) - 1
             /\ portal.region.min.x = p.region.min.x
             /\ portal.region.max.x = p.region.max.x

----------------------------------------------------------------------------
\* Every id returned so far, with the thread and the rank of the call.
IdsReturned ==
    { <<t, i>> : t \in Threads, i \in 1 .. MaxCalls } \cap
    UNION { { <<t, i>> : i \in 1 .. Len(threads[t].ids) } : t \in Threads }

(* C21: under any interleaving of PortalId::new calls from any number of   *)
(* threads, the returned ids are pairwise distinct and never 0, and ids    *)
(* returned to one thread are strictly increasing; a call that would       *)
(* return 0 after the counter wraps panics instead, so no id is reused.    *)
C21_IdsNeverReused ==
    pc = "ids" =>
        /\ \A c \in IdsReturned : threads[c[1]].ids[c[2]] # 0
        /\ \A c, e \in IdsReturned :
              c # e => threads[c[1]].ids[c[2]] # threads[e[1]].ids[e[2]]
        /\ \A c, e \in IdsReturned :
              (c[1] = e[1] /\ c[2] < e[2]) =>
                  threads[c[1]].ids[c[2]] < threads[e[1]].ids[e[2]]

----------------------------------------------------------------------------
\* A portal or a region with every Y coordinate set to y.
PortalAtY(p, y) == [p EXCEPT !.region.min.y = y, !.region.max.y = y]

RegionAtY(region, y) == [region EXCEPT !.min.y = y, !.max.y = y]

(* C22: for every portal, valid region and dimension,                      *)
(* is_in_range_of_region is true exactly when is_in_range_of_point is true *)
(* for some block of the region, is_always_in_range_of_region exactly when *)
(* it is true for every block; none of the three depends on a Y            *)
(* coordinate, and the range is 128 in the Overworld, 16 in the Nether.    *)
C22_RegionTestsMatchPointTest ==
    pc = "ranged" =>
        /\ output.in_range_of_region <=>
              \E pos \in RegionBlocks(input.region) : output.in_range_of_point[pos]
        /\ output.always_in_range_of_region <=>
              \A pos \in RegionBlocks(input.region) : output.in_range_of_point[pos]
        /\ \A y \in {0, 255} :
              LET p == PortalAtY(input.portal, y)
                  region == RegionAtY(input.region, y)
              IN /\ output.in_range_of_region
                      = is_in_range_of_region(p, region, input.dimension)
                 /\ output.always_in_range_of_region
                      = is_always_in_range_of_region(p, region, input.dimension)
                 /\ \A pos \in RegionBlocks(input.region) :
                      output.in_range_of_point[pos]
                        = is_in_range_of_point(p, [pos EXCEPT !.y = y],
                                               input.dimension)
        /\ portal_search_range(Overworld) = 128
        /\ portal_search_range(Nether) = 16

----------------------------------------------------------------------------
\* The candidates of `might0` that pass the range test of the region.
InRangeOfRegion(dim, region, cands, might0) ==
    { p \in SeqRange(might0) : is_in_range_of_region(cands[p], region, dim) }

\* The candidates the second retain() of a call discards.
Dominated(dim, region, cands, might0) ==
    InRangeOfRegion(dim, region, cands, might0)
        \ SeqRange(PruneCandidates(dim, region, cands, might0))

\* The candidates that are exactly as far as the bound of the second retain().
AtTheBound(dim, region, cands, might0) ==
    LET smd == smallest_max_distance(dim, region, cands,
                   SelectSeq(might0, LAMBDA p :
                       is_in_range_of_region(cands[p], region, dim)))
    IN { p \in InRangeOfRegion(dim, region, cands, might0) :
           smd.some /\ min_euclidean_distance_sq_to(region, cands[p].region)
                          = smd.val }

----------------------------------------------------------------------------
\* Squared Euclidean distance between two blocks.
DistanceSq(a, b) ==
    (a.x - b.x) * (a.x - b.x) + (a.y - b.y) * (a.y - b.y)
        + (a.z - b.z) * (a.z - b.z)

\* The least and the greatest number of a finite non-empty set.
Least(S) == CHOOSE d \in S : \A e \in S : d <= e

Greatest(S) == CHOOSE d \in S : \A e \in S : d >= e

(* C24: for valid regions A and B and block p,                             *)
(* A.min_euclidean_distance_sq_to(B) is the minimum over blocks a of A and *)
(* b of B of their squared distance; A.max_euclidean_distance_sq_to(B) is  *)
(* the maximum over a of the minimum over b; and                           *)
(* A.min_euclidean_distance_sq_to_point(p) is the minimum over a of the    *)
(* squared distance between a and p.                                       *)
C24_DistancesAreExtremes ==
    pc = "measured" =>
        LET A == RegionBlocks(input.self)
            B == RegionBlocks(input.other)
        IN /\ output.min_sq
                = Least({ DistanceSq(a, b) : a \in A, b \in B })
           /\ output.max_sq
                = Greatest({ Least({ DistanceSq(a, b) : b \in B }) : a \in A })
           /\ output.min_sq_to_point
                = Least({ DistanceSq(a, input.pos) : a \in A })

----------------------------------------------------------------------------
\* The numbers among the keys of a list.
SomeKeys(keys) == { keys[i].val : i \in { j \in DOMAIN keys : keys[j].some } }

(* C25: minima_by_opt_key returns, in their input order, exactly the items *)
(* whose key is Some and equal to the smallest Some key of the input;      *)
(* items whose key is None are never returned, and the result is empty if  *)
(* and only if every item's key is None.                                   *)
C25_MinimaInOrder ==
    pc = "selected" =>
        /\ output = SelectSeq(input.items,
                        LAMBDA i : /\ input.keys[i].some
                                   /\ \A k \in SomeKeys(input.keys) :
                                         input.keys[i].val <= k)
        /\ \A j \in DOMAIN output : input.keys[output[j]].some
        /\ output = <<>> <=> \A i \in DOMAIN input.keys : ~input.keys[i].some

\* Two tied minima returned in input order, from a list that also holds a
\* None and a larger key before them.
C25_Witness ==
    /\ pc = "selected"
    /\ Len(output) = 2
    /\ output[1] < output[2]
    /\ \E i, j \in DOMAIN input.keys :
          /\ i < output[1] /\ j < output[1]
          /\ ~input.keys[i].some
          /\ input.keys[j].some
          /\ input.keys[j].val > input.keys[output[1]].val

----------------------------------------------------------------------------
\* The region `self` with its span along `axis` replaced by lo .. hi, or None
\* when that span is empty.
SpanOrNone(self, axis, lo, hi) ==
    IF lo <= hi
    THEN Some([min |-> [self.min EXCEPT ![axis] = lo],
               max |-> [self.max EXCEPT ![axis] = hi]])
    ELSE None

\* The layers along `axis` of a half that split_excluding_corners returned.
Layers(half, axis) ==
    IF half.some THEN half.val.min[axis] .. half.val.max[axis] ELSE {}

(* C26: for a region with n = max - min along the axis,                    *)
(* split_excluding_corners(axis) returns lo spanning                       *)
(* [min+1, min + floor(n/2)] and hi spanning [min + floor(n/2) + 1, max-1] *)
(* on that axis with all other coordinates unchanged, each replaced by     *)
(* None when its span is empty; hence the halves are disjoint, exclude the *)
(* end layers min and max, and together cover exactly min+1 .. max-1       *)
(* (both None when n <= 1).                                                *)
C26_HalvesBetweenEnds ==
    pc = "halved" =>
        LET self == input.region
            axis == input.axis
            low == self.min[axis]
            high == self.max[axis]
            n == high - low
        IN /\ output[1] = SpanOrNone(self, axis, low + 1, low + (n \div 2))
           /\ output[2] = SpanOrNone(self, axis, low + (n \div 2) + 1, high - 1)
           /\ Layers(output[1], axis) \cap Layers(output[2], axis) = {}
           /\ Layers(output[1], axis) \cup Layers(output[2], axis)
                 = (low + 1) .. (high - 1)
           /\ n <= 1 => output = <<None, None>>

----------------------------------------------------------------------------
\* The resume frame at the head of the stack makes the two recursive calls
\* of a disambiguating split along axis number a.
SplitsToDisambiguate(a) ==
    LET frame == Head(call_stack)
    IN /\ Len(call_stack') = Len(call_stack) + 1
       /\ SubSeq(call_stack', 3, Len(call_stack')) = Tail(call_stack)
       /\ \A k \in 1 .. 2 :
             /\ call_stack'[k].kind = "call"
             /\ call_stack'[k].caller = Some(frame.region)
       /\ call_stack'[1].region.min = frame.region.min
       /\ call_stack'[2].region.max = frame.region.max
       /\ call_stack'[1].region.max
            = [frame.region.max EXCEPT
                 ![AxisALL[a]] = call_stack'[2].region.min[AxisALL[a]] - 1]
       /\ call_stack'[2].region.min
            = [frame.region.min EXCEPT
                 ![AxisALL[a]] = call_stack'[1].region.max[AxisALL[a]] + 1]

\* Original statement of C27: within one call of mark_reachable_portals a
\* disambiguating split (step 6) is performed only if no axis triggered a
\* corner-disagreement split (step 5) in that call, and at most one such
\* split (two recursive calls) is performed before the call returns.
C27_SplitOnlyIfNoAxisSplit ==
    [][ (pc = "marking" /\ call_stack # <<>> /\ Head(call_stack).kind = "resume") =>
          \/ call_stack' = Tail(call_stack)
          \/ /\ \A a \in 1 .. 3 : ~Head(call_stack).axes[a]
             /\ \E a \in 1 .. 3 : SplitsToDisambiguate(a) ]_vars

(* C27, amended: within one call of mark_reachable_portals a               *)
(* disambiguating split (step 6) is performed only along an axis that      *)
(* triggered no corner-disagreement split (step 5) in that call, other     *)
(* axes may have; and at most one such split (two recursive calls) is      *)
(* performed before the call returns.                                      *)
C27_SplitOnlyAlongUnsplitAxis ==
    [][ (pc = "marking" /\ call_stack # <<>> /\ Head(call_stack).kind = "resume") =>
          \/ call_stack' = Tail(call_stack)
          \/ \E a \in 1 .. 3 :
                ~Head(call_stack).axes[a] /\ SplitsToDisambiguate(a) ]_vars

\* The two calls of a disambiguating split are on the stack, made by a call
\* that had already split along another axis for a corner disagreement and
\* recursed into a half there.
C27_Witness ==
    /\ pc = "marking"
    /\ Len(call_stack) >= 2
    /\ call_stack[1].kind = "call"
    /\ call_stack[2].kind = "call"
    /\ call_stack[1].caller = call_stack[2].caller
    /\ call_stack[1].caller.some
    /\ \E a \in {AxisX, AxisY, AxisZ} :
          /\ call_stack[1].region.max[a] + 1 = call_stack[2].region.min[a]
          /\ call_stack[1].region.min[a] = call_stack[1].caller.val.min[a]
          /\ call_stack[2].region.max[a] = call_stack[2].caller.val.max[a]
    /\ LET region == call_stack[1].caller.val
           closest == closest_at_each_corner(destination_dimension, region,
                                             candidates, call_stack[1].might)
       IN \E a \in {AxisX, AxisY, AxisZ} :
             /\ should_split_along_axis(closest, a)
             /\ \E k \in 1 .. 2 : split_excluding_corners(region, a)[k].some

----------------------------------------------------------------------------
\* The corner evaluation of the invocation at the head of the stack.
ClosestOfHeadCall ==
    closest_at_each_corner(destination_dimension, Head(call_stack).region,
        candidates,
        PruneCandidates(destination_dimension, Head(call_stack).region,
                        candidates, Head(call_stack).might))

(* C28: during one run of portal_destinations marks are never lost: an     *)
(* entry of confirmed_reachable that has become true stays true and        *)
(* may_generate_new_portal once true stays true through every later        *)
(* recursive call, so the final result contains every corner winner found  *)
(* in any visited subregion and reports new_portal if any visited corner   *)
(* had no in-range candidate.                                              *)
C28_MarksNeverLost ==
    [][ pc = "marking" =>
          /\ \A p \in DOMAIN marks.confirmed_reachable :
                marks.confirmed_reachable[p] => marks'.confirmed_reachable[p]
          /\ marks.may_generate_new_portal => marks'.may_generate_new_portal
          /\ (pc' = "marking" /\ call_stack # <<>>
                /\ Head(call_stack).kind = "call") =>
                /\ \A c \in 1 .. 8 : \A p \in SeqRange(ClosestOfHeadCall[c]) :
                      marks'.confirmed_reachable[p]
                /\ any_corner_is_empty(ClosestOfHeadCall)
                      => marks'.may_generate_new_portal
          /\ pc' = "done" =>
                /\ SeqRange(actual'.existing_portals)
                      = { p \in DOMAIN marks.confirmed_reachable :
                            marks.confirmed_reachable[p] }
                /\ actual'.new_portal = marks.may_generate_new_portal ]_vars

\* A finished run that recursed and returns, besides a winner of a corner of
\* the whole region, a portal that wins at no corner of the whole region.
C28_Witness ==
    /\ pc = "done"
    /\ actual.steps > 1
    /\ LET root == closest_at_each_corner(destination_dimension,
                       destination_region, candidates,
                       PruneCandidates(destination_dimension, destination_region,
                           candidates, [i \in 1 .. Len(candidates) |-> i]))
       IN /\ \E p \in SeqRange(actual.existing_portals) :
                \A c \in 1 .. 8 : p \notin SeqRange(root[c])
          /\ \E p \in SeqRange(actual.existing_portals) :
                \E c \in 1 .. 8 : p \in SeqRange(root[c])

----------------------------------------------------------------------------
\* The ids of the portals of both dimensions.
WorldIds == UNION { { WorldIndex(world, dim)[k].id :
                        k \in DOMAIN WorldIndex(world, dim) } :
                    dim \in Dimensions }

\* Portal a links to portal b.
LinksTo(a, b) ==
    /\ cached_links[a].outgoing.kind = "Portals"
    /\ b \in SeqRange(cached_links[a].outgoing.ids)

(* C29: after recalculate_portal_links on a world whose portals have       *)
(* distinct ids, cached_links has an entry for every portal of both        *)
(* dimensions, every id in any entry's outgoing list is a key of           *)
(* cached_links (the 'no destination portal' error branch is never taken), *)
(* and portal B's incoming list contains A exactly when A's outgoing id    *)
(* list contains B.                                                        *)
C29_LinksConsistent ==
    pc = "linked" =>
        /\ DOMAIN cached_links = WorldIds
        /\ \A a \in DOMAIN cached_links :
              cached_links[a].outgoing.kind = "Portals" =>
                  SeqRange(cached_links[a].outgoing.ids) \subseteq DOMAIN cached_links
        /\ output = 0
        /\ \A a, b \in DOMAIN cached_links :
              a \in SeqRange(cached_links[b].incoming) <=> LinksTo(a, b)

\* A recalculated world in which some portal has two incoming links and
\* two portals link to each other.
C29_Witness ==
    /\ pc = "linked"
    /\ \E b \in DOMAIN cached_links : Len(cached_links[b].incoming) >= 2
    /\ \E a, b \in DOMAIN cached_links :
          /\ a # b
          /\ LinksTo(a, b) /\ LinksTo(b, a)
          /\ a \in SeqRange(cached_links[b].incoming)
    /\ \E a, b \in DOMAIN cached_links :
          LinksTo(a, b) /\ ~LinksTo(b, a)

----------------------------------------------------------------------------
(* C30: for every candidate list and every region with min <= max on each  *)
(* axis, portal_destinations never returns both an empty existing_portals  *)
(* and new_portal = false: the result always names at least one outcome    *)
(* (some existing portal or new-portal generation).                        *)
C30_SomeOutcome ==
    pc = "done" =>
        actual.existing_portals # <<>> \/ actual.new_portal

\* A finished run over a non-empty candidate list that returns no existing
\* portal, only new-portal generation.
C30_Witness ==
    /\ pc = "done"
    /\ candidates # <<>>
    /\ \A a \in SeqRange(AxisALL) :
          destination_region.min[a] <= destination_region.max[a]
    /\ actual.existing_portals = <<>>
    /\ actual.new_portal

====
